---- MODULE Spec2Model ----
(***************************************************************************)
(* Transcript index of ivrit-ai/explore: the transcript loader, the        *)
(* segment resolver and the bulk build pipeline (parser pool, bounded      *)
(* queue, single writer thread with chunked transactions).                 *)
(*                                                                         *)
(* Strings are sequences of one-character strings.  Two specifications:    *)
(*   Spec        the build pipeline  (IndexManager.__init__ / _build)      *)
(*   SpecOffsets the loader and get_segment_at_offset on one transcript    *)
(***************************************************************************)
EXTENDS Integers, Sequences, FiniteSets, TLC

\* ---------------------------------------------------------------- bounds
\* Largest number of file records handed to a build.
MaxFiles == 8
\* Largest number of files of one build whose JSON does not parse.
MaxBad == 1
\* Largest number of segments of one transcript file of a build.
MaxSegs == 2
\* SpecOffsets: largest number of segments and longest segment text.
MaxLoadSegs == 2
MaxTextLen == 2
\* SpecSearch: longest full_text of the transcripts enumerated.
MaxDocLen == 2
\* SpecClassify: longest full_text of the documents classified.
MaxLayoutLen == 5
\* SpecLookup: most pairs in the lookups of one get_segments_by_ids call
MaxLookups == 3
\* SpecCallers: most hits of the search whose context the export fetches
MaxHits == 2

\* ------------------------------------------------- program constants
\* The batch sizes of the source are scaled down; their order is kept:
\*   1 < BATCH_SIZE < DOC_BATCH_SIZE = DOCS_PER_TX < QUEUE_MAXSIZE
\*   DOC_BATCH_SIZE < SEGMENT_BATCH_SIZE, cpu_threads < QUEUE_MAXSIZE.
\* source: 2000
QUEUE_MAXSIZE == 4
\* source: 1000
DOCS_PER_TX == 3
\* source: 1000
DOC_BATCH_SIZE == 3
\* source: 30000
SEGMENT_BATCH_SIZE == 4
\* source: 200
BATCH_SIZE == 2
\* source: min(16, os.cpu_count() or 4)
cpu_threads == 2
\* number of "?" of the only VALUES clause batch_execute rewrites
REPLACED_PLACEHOLDERS == 7

Min(a, b) == IF a < b THEN a ELSE b

\* ------------------------------------------------------------- loader
NoText == <<"MISSING">>

\* Mutant of LoaderLoop: the cursor forgets the separator ("cursor += len(part)").
RECURSIVE LoaderLoop_NoSeparator(_, _, _, _, _)
LoaderLoop_NoSeparator(segs, k, parts, segments_data, cursor) ==
    IF k > Len(segs)
    THEN [parts |-> parts, segments_data |-> segments_data, error |-> FALSE]
    ELSE IF segs[k].text = NoText \/ ~segs[k].has_times
    THEN [parts |-> parts, segments_data |-> segments_data, error |-> TRUE]
    ELSE LET part == segs[k].text
             segment_info == [text |-> part, char_offset |-> cursor]
         IN LoaderLoop_NoSeparator(segs, k + 1, Append(parts, part),
                                   Append(segments_data, segment_info),
                                   cursor + Len(part))

\* One step of the loop of _episode_to_string_and_segments over segs[k..].
RECURSIVE LoaderLoop(_, _, _, _, _)
LoaderLoop(segs, k, parts, segments_data, cursor) ==
    IF k > Len(segs)
    THEN [parts |-> parts, segments_data |-> segments_data, error |-> FALSE]
    ELSE IF segs[k].text = NoText \/ ~segs[k].has_times
    THEN [parts |-> parts, segments_data |-> segments_data, error |-> TRUE]
    ELSE LET part == segs[k].text
             segment_info == [text |-> part, char_offset |-> cursor]
         IN LoaderLoop(segs, k + 1, Append(parts, part),
                       Append(segments_data, segment_info),
                       cursor + Len(part) + 1)

\* " ".join(parts)
RECURSIVE JoinSpace(_)
JoinSpace(parts) ==
    IF Len(parts) = 0 THEN <<>>
    ELSE IF Len(parts) = 1 THEN parts[1]
    ELSE parts[1] \o <<" ">> \o JoinSpace(Tail(parts))

\* data = [root |-> "dict" | "list" | "other", segs |-> sequence of segments]
\* An accepted transcript gives full_text and segments_data; a rejected one
\* raises (error = TRUE): unknown root shape, or a segment without
\* text/start/end.
_episode_to_string_and_segments(data) ==
    IF data.root \notin {"dict", "list"}
    THEN [error |-> TRUE, full_text |-> <<>>, segments_data |-> <<>>]
    ELSE LET r == LoaderLoop(data.segs, 1, <<>>, <<>>, 0)
         IN IF r.error
            THEN [error |-> TRUE, full_text |-> <<>>, segments_data |-> <<>>]
            ELSE [error |-> FALSE, full_text |-> JoinSpace(r.parts),
                  segments_data |-> r.segments_data]

\* ----------------------------------------------------- segment resolver
NotFound == [segment_id |-> -1, char_offset |-> -1, text |-> <<"IndexError">>]

\* Mutant of get_segment_at_offset: "char_offset < ?" in the WHERE clause.
get_segment_at_offset_strict(segments, doc_id, char_offset) ==
    LET rows == {r \in segments : r[1] = doc_id /\ r[5] < char_offset}
    IN IF rows = {} THEN NotFound
       ELSE LET result == CHOOSE r \in rows : \A q \in rows : q[5] <= r[5]
            IN [segment_id |-> result[2], char_offset |-> result[5],
                text |-> result[3]]

\* SELECT ... FROM segments WHERE doc_id = ? AND char_offset <= ?
\* ORDER BY char_offset DESC LIMIT 1; IndexError when there is no row.
\* A segments row is <<doc_id, segment_id, text, avg_logprob, char_offset,
\* start_time, end_time>>.
get_segment_at_offset(segments, doc_id, char_offset) ==
    LET rows == {r \in segments : r[1] = doc_id /\ r[5] <= char_offset}
    IN IF rows = {} THEN NotFound
       ELSE LET result == CHOOSE r \in rows : \A q \in rows : q[5] <= r[5]
            IN [segment_id |-> result[2], char_offset |-> result[5],
                text |-> result[3]]

\* --------------------------------------------------------- batch_execute
\* The three INSERT statements the writer passes to batch_execute: the
\* table and the number of "?" of the VALUES clause as written.
INSERT_DOCUMENTS == [table |-> "documents", placeholders |-> 6]
INSERT_MAPPING == [table |-> "fts_doc_mapping", placeholders |-> 2]
INSERT_SEGMENTS == [table |-> "segments", placeholders |-> 7]

\* DatabaseService.batch_execute from row i (0-based) on: each chunk of at
\* most BATCH_SIZE rows is one statement.  Only a VALUES clause of
\* REPLACED_PLACEHOLDERS "?" is rewritten to one group per row; any other
\* statement keeps its placeholders while all the chunk's values are bound.
\* sqlite3 raises when the two counts differ.  n = rows inserted.
RECURSIVE batch_execute_from(_, _, _)
batch_execute_from(sql, params_list, i) ==
    IF i >= Len(params_list)
    THEN [ok |-> TRUE, n |-> Len(params_list)]
    ELSE LET batch == SubSeq(params_list, i + 1,
                             Min(i + BATCH_SIZE, Len(params_list)))
             in_final_sql ==
                 IF sql.placeholders = REPLACED_PLACEHOLDERS
                 THEN Len(batch[1]) * Len(batch)
                 ELSE sql.placeholders
             flat_params == Len(batch[1]) * Len(batch)
         IN IF in_final_sql = flat_params
            THEN batch_execute_from(sql, params_list, i + BATCH_SIZE)
            ELSE [ok |-> FALSE, n |-> i]

batch_execute(sql, params_list) == batch_execute_from(sql, params_list, 0)

Range(s) == {s[k] : k \in 1..Len(s)}
Prefix(s, n) == SubSeq(s, 1, n)

\* ------------------------------------------------------------- the store
\* No store file.
NoStore == [exists |-> FALSE, tables |-> FALSE, indexes |-> FALSE,
            optimized |-> FALSE, documents |-> {}, fts |-> {},
            mapping |-> {}, segments |-> {}]

\* The store file left by an earlier, completed build of one transcript.
OldStore == [exists |-> TRUE, tables |-> TRUE, indexes |-> TRUE,
             optimized |-> TRUE,
             documents |-> {<<0, 1000, "source", "episode", "date", "title">>},
             fts |-> {<<1, <<"a">>>>},
             mapping |-> {<<1, 0>>},
             segments |-> {<<0, 0, <<"a">>, 0, 0, 0, 0>>}]

\* The writer connection's transaction: closed, or open with its rows.
NoTx == [open |-> FALSE, documents |-> {}, fts |-> {}, mapping |-> {},
         segments |-> {}]

\* The writer thread's locals at its start.
WriterLocals == [docs_in_tx |-> 0, batch_docs |-> <<>>,
                 batch_segments |-> <<>>, batch_fts |-> <<>>,
                 batch_mapping |-> <<>>]

VARIABLES
    mpc,                \* position of the main thread
    index_path,         \* IndexManager(index_path=...): "none" or "store"
    nFiles,             \* len(file_records)
    badFiles,           \* the files whose read_json / conversion raises
    segsPerFile,        \* segments of each good transcript
    store,              \* the committed content of the store file
    tx,                 \* the writer connection's open transaction
    wpc,                \* position of the writer thread
    w,                  \* the writer thread's locals
    write_queue,        \* queue.Queue(maxsize=2000)
    finished_producers, \* the flag the main thread sets after the last put
    fut,                \* state of the future of each submitted file
    futIdx,             \* the future the main thread waits for next
    last,               \* history: thread of the last step, did it run a store statement
    nCommits,           \* history: commits made by the writer thread
    lpc, ldata, loaded, qdoc, qoff, qres,  \* SpecOffsets
    spc,                \* SpecSearch: position of the search_hits call
    sreq,               \* SpecSearch: the arguments of the call
    sres,               \* SpecSearch: what the call returned, or that it raised
    cpc, cin, cres,     \* SpecClassify: a _classify_hit_position call
    gpc,                \* SpecLookup: position of each thread in get_segments_by_ids
    glookups,           \* SpecLookup: the lookups argument of each thread's call
    gi,                 \* SpecLookup: the batch loop's index i of each thread
    temp,               \* SpecLookup: temp_segment_lookups of each thread's connection
    gresult,            \* SpecLookup: what each thread's call returned
    apc, areq, ares     \* SpecLookup: a caller that pairs the result with its request

buildVars == <<mpc, index_path, nFiles, badFiles, segsPerFile, store, tx, wpc,
               w, write_queue, finished_producers, fut, futIdx, last, nCommits>>
offsetVars == <<lpc, ldata, loaded, qdoc, qoff, qres>>
searchVars == <<spc, sreq, sres>>
classifyVars == <<cpc, cin, cres>>
lookupVars == <<gpc, glookups, gi, temp, gresult, apc, areq, ares>>
vars == <<buildVars, offsetVars, searchVars, classifyVars, lookupVars>>

Files == 0..(nFiles - 1)

\* ------------------------------------------------------- parser workers
\* The JSON of file record rec_idx: segsPerFile segments of 1, 2, ...
\* letters; a bad file has an unknown root (or does not parse at all).
FileData(rec_idx) ==
    IF rec_idx \in badFiles
    THEN [root |-> "other", segs |-> <<>>]
    ELSE [root |-> "list",
          segs |-> [k \in 1..segsPerFile |->
                       [text |-> [j \in 1..k |-> "a"], has_times |-> TRUE]]]

UuidOf(rec_idx) == rec_idx + 1

\* load_worker on a record whose read_json() gives data: the tuple it
\* returns, or error when it raises.
load_worker_on(rec_idx, data) ==
    LET conv == _episode_to_string_and_segments(data)
        segments == conv.segments_data
    IN [error |-> conv.error,
        document_row |-> <<rec_idx, UuidOf(rec_idx), "source", "episode",
                           "date", "title">>,
        segment_rows |-> [s \in 1..Len(segments) |->
                             <<rec_idx, s - 1, segments[s].text, 0,
                               segments[s].char_offset, 0, 0>>],
        full_text |-> conv.full_text]

load_worker(rec_idx) == load_worker_on(rec_idx, FileData(rec_idx))

\* ThreadPoolExecutor(max_workers=cpu_threads): tasks start in submission
\* order, at most cpu_threads of them are running at a time.
WorkerFree(i) == Cardinality({j \in Files : j < i /\ fut[j] = "pending"}) < cpu_threads

PoolRunning == mpc \in {"produce", "unwinding"}

LoadWorker(i) ==
    /\ PoolRunning
    /\ fut[i] = "pending"
    /\ WorkerFree(i)
    /\ fut' = [fut EXCEPT ![i] = IF load_worker(i).error THEN "failed" ELSE "ok"]
    /\ last' = [by |-> "parser", db |-> FALSE]
    /\ UNCHANGED <<mpc, index_path, nFiles, badFiles, segsPerFile, store, tx,
                   wpc, w, write_queue, finished_producers, futIdx, nCommits>>
    /\ UNCHANGED <<offsetVars, searchVars, classifyVars, lookupVars>>

\* --------------------------------------------------------- writer thread
\* The writer's view while it runs one piece of its code: its locals, its
\* transaction, the committed store, whether a statement raised, and the
\* commits made.
WriterView == [docs_in_tx |-> w.docs_in_tx, batch_docs |-> w.batch_docs,
               batch_segments |-> w.batch_segments, batch_fts |-> w.batch_fts,
               batch_mapping |-> w.batch_mapping,
               tx |-> tx, store |-> store, ok |-> TRUE, commits |-> 0]

\* cursor.lastrowid of the next INSERT INTO documents_fts: rowids count up.
LastRowid(v) == Cardinality(v.store.fts \cup v.tx.fts)

\* "INSERT INTO documents_fts(full_text) VALUES (?)" for each batch_fts[idx],
\* and batch_mapping.append((fts_rowid, batch_docs[idx][0])).
FtsInserted(v) ==
    {<<LastRowid(v) + idx, v.batch_fts[idx]>> : idx \in 1..Len(v.batch_fts)}

\* Mutant of MappingAppended: the rowid is read before the INSERT.
MappingAppended_StaleRowid(v) ==
    v.batch_mapping \o
        [idx \in 1..Len(v.batch_fts) |->
            <<LastRowid(v) + idx - 1, v.batch_docs[idx][1]>>]

MappingAppended(v) ==
    v.batch_mapping \o
        [idx \in 1..Len(v.batch_fts) |-> <<LastRowid(v) + idx, v.batch_docs[idx][1]>>]

\* Insert documents, then the full-text rows, then the mapping, and empty
\* the three batches.  A statement that raises ends it (ok = FALSE).
FlushDocs(v) ==
    LET r1 == batch_execute(INSERT_DOCUMENTS, v.batch_docs)
        tx1 == [v.tx EXCEPT !.documents = @ \cup Range(Prefix(v.batch_docs, r1.n))]
        tx2 == [tx1 EXCEPT !.fts = @ \cup FtsInserted(v)]
        mapping == MappingAppended(v)
        r2 == batch_execute(INSERT_MAPPING, mapping)
        tx3 == [tx2 EXCEPT !.mapping = @ \cup Range(Prefix(mapping, r2.n))]
    IN IF ~r1.ok THEN [v EXCEPT !.ok = FALSE, !.tx = tx1]
       ELSE IF ~r2.ok
       THEN [v EXCEPT !.ok = FALSE, !.tx = tx3, !.batch_mapping = mapping]
       ELSE [v EXCEPT !.tx = tx3, !.batch_docs = <<>>, !.batch_fts = <<>>,
                      !.batch_mapping = <<>>]

\* Insert the pending segment rows and empty the batch.
FlushSegments(v) ==
    LET r == batch_execute(INSERT_SEGMENTS, v.batch_segments)
        tx1 == [v.tx EXCEPT !.segments = @ \cup Range(Prefix(v.batch_segments, r.n))]
    IN IF ~r.ok THEN [v EXCEPT !.ok = FALSE, !.tx = tx1]
       ELSE [v EXCEPT !.tx = tx1, !.batch_segments = <<>>]

\* db.commit(): the rows of the open transaction become part of the store.
Commit(v) ==
    [v EXCEPT !.store = [@ EXCEPT !.documents = @ \cup v.tx.documents,
                                  !.fts = @ \cup v.tx.fts,
                                  !.mapping = @ \cup v.tx.mapping,
                                  !.segments = @ \cup v.tx.segments],
              !.tx = NoTx,
              !.commits = @ + 1]

\* db.execute("BEGIN")
Begin(v) == [v EXCEPT !.tx = [@ EXCEPT !.open = TRUE]]

\* "if docs_in_tx >= DOCS_PER_TX": flush what is pending, commit, BEGIN.
ChunkDue(v) == v.docs_in_tx >= DOCS_PER_TX

CommitChunk(v) ==
    LET v1 == IF Len(v.batch_docs) > 0 THEN FlushDocs(v) ELSE v
        v2 == IF v1.ok /\ Len(v1.batch_segments) > 0 THEN FlushSegments(v1) ELSE v1
    IN IF ~v2.ok THEN v2
       ELSE [Begin(Commit(v2)) EXCEPT !.docs_in_tx = 0]

\* The body of the writer's loop for one item taken from the queue.
WriterIteration(v, item) ==
    LET v1 == [v EXCEPT !.batch_docs = Append(@, item.document_row),
                        !.batch_segments = @ \o item.segment_rows,
                        !.batch_fts = Append(@, item.full_text),
                        !.docs_in_tx = @ + 1]
        v2 == IF Len(v1.batch_docs) >= DOC_BATCH_SIZE THEN FlushDocs(v1) ELSE v1
        v3 == IF v2.ok /\ Len(v2.batch_segments) >= SEGMENT_BATCH_SIZE
              THEN FlushSegments(v2) ELSE v2
    IN IF v3.ok /\ ChunkDue(v3) THEN CommitChunk(v3) ELSE v3

\* FINAL FLUSH & COMMIT after the loop.
WriterFinalFlush(v) ==
    LET v1 == IF Len(v.batch_docs) > 0 THEN FlushDocs(v) ELSE v
        v2 == IF v1.ok /\ Len(v1.batch_segments) > 0 THEN FlushSegments(v1) ELSE v1
    IN IF ~v2.ok THEN v2 ELSE Commit(v2)

LocalsOf(v) == [docs_in_tx |-> v.docs_in_tx, batch_docs |-> v.batch_docs,
                batch_segments |-> v.batch_segments, batch_fts |-> v.batch_fts,
                batch_mapping |-> v.batch_mapping]

\* The writer's variables after running a piece of code that ended in view
\* v: when a statement raised, the thread ends with the exception and its
\* thread-local connection is closed, which rolls its transaction back.
WriterResult(v, next) ==
    /\ store' = v.store
    /\ nCommits' = nCommits + v.commits
    /\ last' = [by |-> "writer", db |-> TRUE]
    /\ IF v.ok
       THEN /\ wpc' = next
            /\ tx' = v.tx
            /\ w' = LocalsOf(v)
       ELSE /\ wpc' = "dead"
            /\ tx' = NoTx
            /\ w' = WriterLocals

\* db.execute("BEGIN") at the start of writer_thread.
WriterBegin ==
    /\ wpc = "begin"
    /\ WriterResult(Begin(WriterView), "loop")
    /\ UNCHANGED <<mpc, index_path, nFiles, badFiles, segsPerFile,
                   write_queue, finished_producers, fut, futIdx>>
    /\ UNCHANGED <<offsetVars, searchVars, classifyVars, lookupVars>>

\* write_queue.get() returns an item: one iteration of the loop.
WriterGet ==
    /\ wpc = "loop"
    /\ Len(write_queue) > 0
    /\ write_queue' = Tail(write_queue)
    /\ WriterResult(WriterIteration(WriterView, Head(write_queue)), "loop")
    /\ UNCHANGED <<mpc, index_path, nFiles, badFiles, segsPerFile,
                   finished_producers, fut, futIdx>>
    /\ UNCHANGED <<offsetVars, searchVars, classifyVars, lookupVars>>

\* write_queue.get(timeout=0.2) raises queue.Empty and finished_producers is
\* set: break.  (With the flag unset the loop continues: no change.)
WriterBreak ==
    /\ wpc = "loop"
    /\ Len(write_queue) = 0
    /\ finished_producers
    /\ wpc' = "final"
    /\ last' = [by |-> "writer", db |-> FALSE]
    /\ UNCHANGED <<mpc, index_path, nFiles, badFiles, segsPerFile, store, tx,
                   w, write_queue, finished_producers, fut, futIdx, nCommits>>
    /\ UNCHANGED <<offsetVars, searchVars, classifyVars, lookupVars>>

\* The final flush and commit; the thread then ends.
WriterFinal ==
    /\ wpc = "final"
    /\ WriterResult(WriterFinalFlush(WriterView), "done")
    /\ UNCHANGED <<mpc, index_path, nFiles, badFiles, segsPerFile,
                   write_queue, finished_producers, fut, futIdx>>
    /\ UNCHANGED <<offsetVars, searchVars, classifyVars, lookupVars>>

\* ----------------------------------------------------------- main thread
MainStep(next, db) ==
    /\ mpc' = next
    /\ last' = [by |-> "main", db |-> db]

\* cli.build_index: refuse when the store file exists or there is no
\* transcript, else construct IndexManager(file_records, path=db_path).
CliBuildIndex ==
    /\ mpc = "cli"
    /\ MainStep(IF store.exists \/ nFiles = 0 THEN "exit" ELSE "ctor", FALSE)
    /\ UNCHANGED <<index_path, nFiles, badFiles, segsPerFile, store, tx, wpc,
                   w, write_queue, finished_producers, fut, futIdx, nCommits>>
    /\ UNCHANGED <<offsetVars, searchVars, classifyVars, lookupVars>>

\* IndexManager.__init__: load when index_path exists, else build when
\* there are file records, else ValueError.
IndexManagerInit ==
    /\ mpc = "ctor"
    /\ MainStep(IF index_path = "store" /\ store.exists THEN "loaded"
                ELSE IF nFiles > 0 THEN "open" ELSE "raised", FALSE)
    /\ UNCHANGED <<index_path, nFiles, badFiles, segsPerFile, store, tx, wpc,
                   w, write_queue, finished_producers, fut, futIdx, nCommits>>
    /\ UNCHANGED <<offsetVars, searchVars, classifyVars, lookupVars>>

\* _build: DatabaseService(...) opens (creates) the file; DROP TABLE IF
\* EXISTS of the four tables (their indexes go with them); commit.
BuildDropTables ==
    /\ mpc = "open"
    /\ MainStep("schema", TRUE)
    /\ store' = [NoStore EXCEPT !.exists = TRUE]
    /\ UNCHANGED <<index_path, nFiles, badFiles, segsPerFile, tx, wpc,
                   w, write_queue, finished_producers, fut, futIdx, nCommits>>
    /\ UNCHANGED <<offsetVars, searchVars, classifyVars, lookupVars>>

\* _setup_schema: CREATE TABLE ..., CREATE INDEX IF NOT EXISTS ...
BuildSetupSchema ==
    /\ mpc = "schema"
    /\ MainStep("dropidx", TRUE)
    /\ store' = [store EXCEPT !.tables = TRUE, !.indexes = TRUE]
    /\ UNCHANGED <<index_path, nFiles, badFiles, segsPerFile, tx, wpc,
                   w, write_queue, finished_producers, fut, futIdx, nCommits>>
    /\ UNCHANGED <<offsetVars, searchVars, classifyVars, lookupVars>>

\* DROP INDEX IF EXISTS of the eight secondary indexes.
BuildDropIndexes ==
    /\ mpc = "dropidx"
    /\ MainStep("start", TRUE)
    /\ store' = [store EXCEPT !.indexes = FALSE]
    /\ UNCHANGED <<index_path, nFiles, badFiles, segsPerFile, tx, wpc,
                   w, write_queue, finished_producers, fut, futIdx, nCommits>>
    /\ UNCHANGED <<offsetVars, searchVars, classifyVars, lookupVars>>

\* writer = threading.Thread(target=writer_thread); writer.start()
BuildStartWriter ==
    /\ mpc = "start"
    /\ MainStep("submit", FALSE)
    /\ wpc' = "begin"
    /\ UNCHANGED <<index_path, nFiles, badFiles, segsPerFile, store, tx,
                   w, write_queue, finished_producers, fut, futIdx, nCommits>>
    /\ UNCHANGED <<offsetVars, searchVars, classifyVars, lookupVars>>

\* futures = [pool.submit(load_worker, i, rec) for i, rec in records]
BuildSubmit ==
    /\ mpc = "submit"
    /\ MainStep("produce", FALSE)
    /\ UNCHANGED <<index_path, nFiles, badFiles, segsPerFile, store, tx, wpc,
                   w, write_queue, finished_producers, fut, futIdx, nCommits>>
    /\ UNCHANGED <<offsetVars, searchVars, classifyVars, lookupVars>>

\* "for fut in futures": fut.result() returned, write_queue.put(...) found
\* a free slot (put blocks the main thread while the queue is full).
MainPut ==
    /\ mpc = "produce"
    /\ futIdx < nFiles
    /\ fut[futIdx] = "ok"
    /\ Len(write_queue) < QUEUE_MAXSIZE
    /\ LET r == load_worker(futIdx)
       IN write_queue' = Append(write_queue,
              [document_row |-> r.document_row, segment_rows |-> r.segment_rows,
               full_text |-> r.full_text])
    /\ futIdx' = futIdx + 1
    /\ MainStep("produce", FALSE)
    /\ UNCHANGED <<index_path, nFiles, badFiles, segsPerFile, store, tx, wpc,
                   w, finished_producers, fut, nCommits>>
    /\ UNCHANGED <<offsetVars, searchVars, classifyVars, lookupVars>>

\* fut.result() re-raises the worker's exception: the loop is left, the
\* pool's __exit__ waits for the tasks still queued.
MainParseError ==
    /\ mpc = "produce"
    /\ futIdx < nFiles
    /\ fut[futIdx] = "failed"
    /\ MainStep("unwinding", FALSE)
    /\ UNCHANGED <<index_path, nFiles, badFiles, segsPerFile, store, tx, wpc,
                   w, write_queue, finished_producers, fut, futIdx, nCommits>>
    /\ UNCHANGED <<offsetVars, searchVars, classifyVars, lookupVars>>

\* The pool has shut down; the exception leaves _build and __init__.
MainRaise ==
    /\ mpc = "unwinding"
    /\ \A i \in Files : fut[i] # "pending"
    /\ MainStep("raised", FALSE)
    /\ UNCHANGED <<index_path, nFiles, badFiles, segsPerFile, store, tx, wpc,
                   w, write_queue, finished_producers, fut, futIdx, nCommits>>
    /\ UNCHANGED <<offsetVars, searchVars, classifyVars, lookupVars>>

\* Every future was consumed: finished_producers = True.
MainFinishedProducers ==
    /\ mpc = "produce"
    /\ futIdx = nFiles
    /\ finished_producers' = TRUE
    /\ MainStep("join", FALSE)
    /\ UNCHANGED <<index_path, nFiles, badFiles, segsPerFile, store, tx, wpc,
                   w, write_queue, fut, futIdx, nCommits>>
    /\ UNCHANGED <<offsetVars, searchVars, classifyVars, lookupVars>>

\* Mutant of WriterEnded: the main thread does not wait for the writer.
WriterEnded_NoJoin == TRUE

\* writer.join() returns once the writer thread has ended, with or without
\* an exception.
WriterEnded == wpc \in {"done", "dead"}

MainJoin ==
    /\ mpc = "join"
    /\ WriterEnded
    /\ MainStep("recreate", FALSE)
    /\ UNCHANGED <<index_path, nFiles, badFiles, segsPerFile, store, tx, wpc,
                   w, write_queue, finished_producers, fut, futIdx, nCommits>>
    /\ UNCHANGED <<offsetVars, searchVars, classifyVars, lookupVars>>

\* CREATE INDEX of the eight secondary indexes.
BuildRecreateIndexes ==
    /\ mpc = "recreate"
    /\ MainStep("optimize", TRUE)
    /\ store' = [store EXCEPT !.indexes = TRUE]
    /\ UNCHANGED <<index_path, nFiles, badFiles, segsPerFile, tx, wpc,
                   w, write_queue, finished_producers, fut, futIdx, nCommits>>
    /\ UNCHANGED <<offsetVars, searchVars, classifyVars, lookupVars>>

\* INSERT INTO documents_fts(documents_fts) VALUES('optimize'); log
\* "Index built successfully"; return TranscriptIndex(db).
BuildOptimize ==
    /\ mpc = "optimize"
    /\ MainStep("returned", TRUE)
    /\ store' = [store EXCEPT !.optimized = TRUE]
    /\ UNCHANGED <<index_path, nFiles, badFiles, segsPerFile, tx, wpc,
                   w, write_queue, finished_producers, fut, futIdx, nCommits>>
    /\ UNCHANGED <<offsetVars, searchVars, classifyVars, lookupVars>>

\* ------------------------------------------------------ specification
\* No search_hits call and no _classify_hit_position call is under way.
NoRequest == [query |-> <<>>, search_mode |-> "none", date_from |-> <<>>,
              date_to |-> <<>>, sources |-> {}, ignore_punct |-> FALSE,
              position_filters |-> {}]
NoResult == [raised |-> FALSE, hits |-> <<>>]
NoSpan == [segs |-> <<>>, hit_start |-> 0, hit_end |-> 0]

SearchIdle ==
    /\ spc = "idle"
    /\ sreq = NoRequest
    /\ sres = NoResult

ClassifyIdle ==
    /\ cpc = "idle"
    /\ cin = NoSpan
    /\ cres = {}

\* The threads that call get_segments_by_ids, each with the connection
\* DatabaseService keeps for it in threading.local().
LookupThreads == {"t1", "t2"}
NoTemp == [exists |-> FALSE, rows |-> {}]

LookupIdle ==
    /\ gpc = [t \in LookupThreads |-> "idle"]
    /\ glookups = [t \in LookupThreads |-> <<>>]
    /\ gi = [t \in LookupThreads |-> 0]
    /\ temp = [t \in LookupThreads |-> NoTemp]
    /\ gresult = [t \in LookupThreads |-> <<>>]
    /\ apc = "idle"
    /\ areq = <<>>
    /\ ares = <<>>

OffsetsIdle ==
    /\ lpc = "idle"
    /\ ldata = [root |-> "other", segs |-> <<>>]
    /\ loaded = [error |-> TRUE, full_text |-> <<>>, segments_data |-> <<>>]
    /\ qdoc = 0
    /\ qoff = 0
    /\ qres = NotFound

Init ==
    /\ mpc \in {"cli", "ctor"}
    /\ index_path \in {"none", "store"}
    /\ mpc = "cli" => index_path = "none"
    /\ nFiles \in 0..MaxFiles
    /\ badFiles \in {S \in SUBSET (0..(nFiles - 1)) : Cardinality(S) <= MaxBad}
    /\ segsPerFile \in 0..MaxSegs
    /\ store \in {NoStore, OldStore}
    /\ tx = NoTx
    /\ wpc = "idle"
    /\ w = WriterLocals
    /\ write_queue = <<>>
    /\ finished_producers = FALSE
    /\ fut = [i \in 0..(nFiles - 1) |-> "pending"]
    /\ futIdx = 0
    /\ last = [by |-> "none", db |-> FALSE]
    /\ nCommits = 0
    /\ OffsetsIdle
    /\ SearchIdle
    /\ ClassifyIdle
    /\ LookupIdle

Next ==
    \/ CliBuildIndex
    \/ IndexManagerInit
    \/ BuildDropTables
    \/ BuildSetupSchema
    \/ BuildDropIndexes
    \/ BuildStartWriter
    \/ BuildSubmit
    \/ \E i \in Files : LoadWorker(i)
    \/ MainPut
    \/ MainParseError
    \/ MainRaise
    \/ MainFinishedProducers
    \/ MainJoin
    \/ BuildRecreateIndexes
    \/ BuildOptimize
    \/ WriterBegin
    \/ WriterGet
    \/ WriterBreak
    \/ WriterFinal

Spec == Init /\ [][Next]_vars

\* ------------------------------------------ loader and resolver, alone
Chars == {"a", " "}
SeqsUpTo(S, n) == UNION {[1..k -> S] : k \in 0..n}
Texts == SeqsUpTo(Chars, MaxTextLen)

\* A segment of the JSON: with its text and times, without "text", or
\* without "start"/"end".
LoadSegments ==
    {[text |-> t, has_times |-> TRUE] : t \in Texts}
        \cup {[text |-> NoText, has_times |-> TRUE],
              [text |-> <<>>, has_times |-> FALSE]}

LoadInputs ==
    {[root |-> r, segs |-> s] :
        r \in {"dict", "list"}, s \in SeqsUpTo(LoadSegments, MaxLoadSegs)}
        \cup {[root |-> "other", segs |-> <<>>]}

\* doc_id of the transcript under test, of a second stored document, and a
\* doc_id the store does not have.
LoadDoc == 0
OtherDoc == 1
UnknownDoc == 2
DocIds == {LoadDoc, OtherDoc, UnknownDoc}

OtherData == [root |-> "list",
              segs |-> [k \in 1..4 |-> [text |-> <<"a">>, has_times |-> TRUE]]]

OtherStore == [NoStore EXCEPT !.exists = TRUE, !.tables = TRUE,
                  !.segments = Range(load_worker_on(OtherDoc, OtherData).segment_rows)]

InitOffsets ==
    /\ mpc = "none"
    /\ index_path = "none"
    /\ nFiles = 0
    /\ badFiles = {}
    /\ segsPerFile = 0
    /\ store = OtherStore
    /\ tx = NoTx
    /\ wpc = "idle"
    /\ w = WriterLocals
    /\ write_queue = <<>>
    /\ finished_producers = FALSE
    /\ fut = <<>>
    /\ futIdx = 0
    /\ last = [by |-> "none", db |-> FALSE]
    /\ nCommits = 0
    /\ lpc = "input"
    /\ ldata \in LoadInputs
    /\ loaded = [error |-> TRUE, full_text |-> <<>>, segments_data |-> <<>>]
    /\ qdoc = 0
    /\ qoff = 0
    /\ qres = NotFound
    /\ SearchIdle
    /\ ClassifyIdle
    /\ LookupIdle

\* The transcript goes through the loader; the segment rows load_worker
\* makes of an accepted one are stored.
OffsetsLoad ==
    /\ lpc = "input"
    /\ LET r == load_worker_on(LoadDoc, ldata)
       IN /\ loaded' = _episode_to_string_and_segments(ldata)
          /\ lpc' = IF r.error THEN "rejected" ELSE "stored"
          /\ store' = IF r.error THEN store
                      ELSE [store EXCEPT !.segments = @ \cup Range(r.segment_rows)]
    /\ UNCHANGED <<mpc, index_path, nFiles, badFiles, segsPerFile, tx, wpc, w,
                   write_queue, finished_producers, fut, futIdx, last, nCommits>>
    /\ UNCHANGED <<ldata, qdoc, qoff, qres>>
    /\ UNCHANGED <<searchVars, classifyVars, lookupVars>>

\* get_segment_at_offset(d, h) on the store.
OffsetsResolve(d, h) ==
    /\ lpc = "stored"
    /\ lpc' = "resolved"
    /\ qdoc' = d
    /\ qoff' = h
    /\ qres' = get_segment_at_offset(store.segments, d, h)
    /\ UNCHANGED buildVars
    /\ UNCHANGED <<ldata, loaded>>
    /\ UNCHANGED <<searchVars, classifyVars, lookupVars>>

NextOffsets ==
    \/ OffsetsLoad
    \/ \E d \in DocIds : \E h \in (-1)..(Len(loaded.full_text) + 1) :
           OffsetsResolve(d, h)

SpecOffsets == InitOffsets /\ [][NextOffsets]_vars

\* ------------------------------------------------------------ claims
\* Views of the loaded transcript used by C1 and C2.
InTexts == [k \in 1..Len(ldata.segs) |-> ldata.segs[k].text]
OutSegs == loaded.segments_data
Accepted == lpc \in {"stored", "resolved"}

\* The slice full_text[a : a + n] of Python.
Slice(s, a, n) == SubSeq(s, a + 1, a + n)

\* C1: for every transcript the loader accepts, the segments come out in
\* file order with char_offset[0] = 0 and char_offset[k+1] = char_offset[k]
\* + len(text[k]) + 1; full_text is the texts joined by exactly one space
\* (its length is the last offset plus the last length, the character after
\* every segment but the last is a space), and the slice of full_text at
\* char_offset[k] of length len(text[k]) is text[k].
C1_OffsetRoundTrip ==
    Accepted =>
        /\ ~loaded.error
        /\ Len(OutSegs) = Len(InTexts)
        /\ \A k \in 1..Len(OutSegs) :
              /\ OutSegs[k].text = InTexts[k]
              /\ k = 1 => OutSegs[k].char_offset = 0
              /\ k < Len(OutSegs) =>
                    /\ OutSegs[k + 1].char_offset =
                          OutSegs[k].char_offset + Len(InTexts[k]) + 1
                    /\ loaded.full_text[OutSegs[k].char_offset + Len(InTexts[k]) + 1] = " "
              /\ k = Len(OutSegs) =>
                    Len(loaded.full_text) = OutSegs[k].char_offset + Len(InTexts[k])
              /\ Slice(loaded.full_text, OutSegs[k].char_offset, Len(InTexts[k]))
                    = InTexts[k]
        /\ Len(OutSegs) = 0 => loaded.full_text = <<>>
        /\ \A r \in store.segments :
              r[1] = LoadDoc =>
                  /\ r[2] + 1 \in 1..Len(OutSegs)
                  /\ r[3] = InTexts[r[2] + 1]
                  /\ r[5] = OutSegs[r[2] + 1].char_offset

\* C1 witness: an accepted transcript of two segments, the first one not
\* empty, so the second offset is past a text and a separator.
C1_Witness ==
    /\ lpc = "stored"
    /\ Len(OutSegs) = 2
    /\ Len(InTexts[1]) = 2
    /\ OutSegs[2].char_offset = 3
    /\ Len(InTexts[2]) > 0

\* C2: in a store whose segments obey the offset rule,
\* get_segment_at_offset(doc_id, h) is segment k for h inside segment k, the
\* preceding segment for h on the separator after it, the last segment for
\* h past the end of the document; it raises IndexError exactly when the
\* document has no segment with char_offset <= h (a doc_id without
\* segments, or h < 0).
C2_ExpectedSegment(h) ==
    CHOOSE k \in 1..Len(OutSegs) :
        \/ OutSegs[k].char_offset <= h /\ h < OutSegs[k].char_offset + Len(InTexts[k])
        \/ k < Len(OutSegs) /\ h = OutSegs[k].char_offset + Len(InTexts[k])
        \/ k = Len(OutSegs) /\ h >= Len(loaded.full_text)

WriterAlive == wpc \in {"begin", "loop", "final"}
ParseFailed == \E i \in Files : fut[i] = "failed"
\* Documents the writer has taken from the queue.
Taken == futIdx - Len(write_queue)
\* Documents parsed by the pool and not yet taken by the writer: results
\* held by futures not yet consumed, and items in the queue.
ParsedNotTaken ==
    Cardinality({i \in Files : i >= futIdx /\ fut[i] = "ok"}) + Len(write_queue)
DocIdsOf(rows) == {r[1] : r \in rows}
\* The rows of the four tables, committed (st) or in the transaction (t).
AllRows(st, t) == [documents |-> st.documents \cup t.documents,
                   fts |-> st.fts \cup t.fts,
                   mapping |-> st.mapping \cup t.mapping,
                   segments |-> st.segments \cup t.segments]
HasRows(t) ==
    t.documents # {} \/ t.fts # {} \/ t.mapping # {} \/ t.segments # {}
RowsSubset(a, b) ==
    /\ a.documents \subseteq b.documents
    /\ a.fts \subseteq b.fts
    /\ a.mapping \subseteq b.mapping
    /\ a.segments \subseteq b.segments
\* All rows of file i are committed.
Committed(i) ==
    LET r == load_worker(i)
    IN /\ r.document_row \in store.documents
       /\ Range(r.segment_rows) \subseteq store.segments
       /\ \E m \in store.mapping :
             m[2] = i /\ <<m[1], r.full_text>> \in store.fts

\* C3: a file whose parsing fails is skipped and the build goes on: the
\* failure does not take the main thread out of the build, and a build with
\* a bad file returns with every other file's rows committed.
C3_ParseFailureSkipsFile ==
    /\ ParseFailed => mpc \notin {"unwinding", "raised"}
    /\ (mpc = "returned" /\ badFiles # {}) =>
          \A i \in Files \ badFiles : Committed(i)

\* C4: after a statement of the writer thread has failed, the build
\* aborts: the indexes are not recreated, no optimize is issued and _build
\* does not return an index.
C4_WriterFailureAborts ==
    wpc = "dead" =>
        /\ ~store.indexes
        /\ ~store.optimized
        /\ mpc # "returned"
        /\ ~HasRows(store)

\* C5: every step that runs a store statement is a step of the writer
\* thread or of the main thread, never of a parser worker; the main thread
\* runs one only while the writer thread is not running (before its start
\* or after its end); rows are added to the four tables, committed or in the
\* open transaction, by steps of the writer thread only; and no step that
\* runs no statement changes the store or the transaction.
C5_StepOk ==
    /\ last'.db => last'.by \in {"main", "writer"}
    /\ (last'.db /\ last'.by = "main") => (~WriterAlive /\ ~WriterAlive')
    /\ ~RowsSubset(AllRows(store', tx'), AllRows(store, tx))
          => (last'.by = "writer" /\ last'.db)
    /\ (store' # store \/ tx' # tx) => last'.db

\* C5: every step of a build satisfies C5_StepOk: store statements are run
\* by the writer thread, or by the main thread while no writer thread runs.
C5_SingleWriter == [][C5_StepOk]_vars

\* C5 witness: the main thread has just run a store statement after the
\* writer thread wrote and committed rows and ended.
C5_Witness ==
    /\ last = [by |-> "main", db |-> TRUE]
    /\ wpc = "done"
    /\ store.documents # {}
    /\ store.segments # {}
    /\ store.indexes

\* C6: the documents parsed and not yet taken by the writer never exceed
\* the queue capacity plus the number of parser workers.
C6_BackPressure == ParsedNotTaken <= QUEUE_MAXSIZE + cpu_threads

\* C7: the writer commits every DOCS_PER_TX documents: never more than
\* DOCS_PER_TX documents are taken and uncommitted; once DOCS_PER_TX
\* documents have been taken a commit has been made; and after a chunk
\* commit nothing is pending and every document taken so far is committed.
C7_CommitEveryChunk ==
    /\ store # OldStore => Taken - Cardinality(store.documents) <= DOCS_PER_TX
    /\ Taken >= DOCS_PER_TX => nCommits >= 1
    /\ (wpc = "loop" /\ nCommits >= 1 /\ w.docs_in_tx = 0) =>
          /\ w = WriterLocals
          /\ \A i \in 0..(Taken - 1) : Committed(i)

\* C8: in the committed store of a build every document row has exactly
\* one mapping entry, that entry's fts_rowid is the rowid of exactly one
\* full-text row, and that row holds the document's own full_text; every
\* mapping entry and every full-text row belongs to a committed document.
C8_FtsMappingAtomic ==
    store # OldStore =>
        /\ \A d \in store.documents :
              /\ Cardinality({m \in store.mapping : m[2] = d[1]}) = 1
              /\ \A m \in store.mapping :
                    m[2] = d[1] =>
                        /\ Cardinality({f \in store.fts : f[1] = m[1]}) = 1
                        /\ <<m[1], load_worker(d[1]).full_text>> \in store.fts
        /\ \A m \in store.mapping : m[2] \in DocIdsOf(store.documents)
        /\ \A f \in store.fts : \E m \in store.mapping : m[1] = f[1]
        /\ Cardinality(store.fts) = Cardinality(store.documents)
        /\ Cardinality(store.mapping) = Cardinality(store.documents)

\* C8 witness: the writer has committed a document with its full-text row
\* and its mapping entry.
C8_Witness ==
    /\ store # OldStore
    /\ nCommits >= 1
    /\ store.segments # {}
    /\ \E i \in Files : Committed(i) /\ load_worker(i).full_text # <<>>

\* C9: the secondary indexes are absent while rows are being inserted;
\* they are recreated only after the writer's final flush and commit; the
\* optimize is issued only after the indexes are recreated.
C9_ProtocolOrder ==
    /\ (WriterAlive /\ HasRows(AllRows(store, tx))) => ~store.indexes
    /\ (mpc \in {"optimize", "returned"} /\ store.indexes) =>
          (wpc = "done" /\ tx = NoTx)
    /\ (mpc = "returned" /\ store.optimized) => store.indexes

\* C10: no entry point starts a build on a store file that exists, and a
\* store file that exists is left as it is.
C10_StepOk ==
    /\ (store.exists /\ mpc \in {"cli", "ctor"}) => mpc' # "open"
    /\ store = OldStore => store' = OldStore

\* C10: every step satisfies C10_StepOk: no entry point goes on to _build
\* when the store file exists, and an existing store is never changed.
C10_RefusesExistingStore == [][C10_StepOk]_vars

\* =================================================================
\* search_hits: the regular expressions, the full-text filter, the three
\* modes and the position classifier.
\* =================================================================

\* ------------------------------------------------------- characters
\* \w of the regex module, and the token characters of unicode61.
WordChars == {"a", "O", "R"}
\* \s
SpaceChars == {" "}
\* \p{P}  ("|" is a symbol, not punctuation)
PunctChars == {"-", ".", "(", "*"}

\* ---------------------------------------------- regular expressions
\* A compiled pattern is a sequence of alternatives ("|"), each a sequence
\* of items [kind, c, q]:
\*   kind  "lit" the character c | "any" "." | "punct" [\p{P}] |
\*         "punctspace" [\p{P}\s] | "wordb" \b
\*   q     "one" | "star" (greedy *) | "plus" (greedy +)
Lit(c) == [kind |-> "lit", c |-> c, q |-> "one"]
WordB == [kind |-> "wordb", c |-> "", q |-> "one"]
PunctStar == [kind |-> "punct", c |-> "", q |-> "star"]
PunctSpacePlus == [kind |-> "punctspace", c |-> "", q |-> "plus"]
AnyChar == [kind |-> "any", c |-> "", q |-> "one"]

ItemMatches(item, ch) ==
    CASE item.kind = "lit" -> ch = item.c
      [] item.kind = "any" -> TRUE
      [] item.kind = "punct" -> ch \in PunctChars
      [] item.kind = "punctspace" -> ch \in PunctChars \cup SpaceChars
      [] OTHER -> FALSE

\* \b at position pos (0-based, between text[pos] and text[pos + 1]).
WordBoundary(text, pos) ==
    (pos > 0 /\ text[pos] \in WordChars)
        # (pos < Len(text) /\ text[pos + 1] \in WordChars)

\* The number of consecutive characters from pos on that the item matches.
RECURSIVE RunLength(_, _, _)
RunLength(item, text, pos) ==
    IF pos < Len(text) /\ ItemMatches(item, text[pos + 1])
    THEN 1 + RunLength(item, text, pos + 1)
    ELSE 0

\* The ends of the matches of items[i..] that start at pos, in the order
\* the backtracking matcher tries them (a greedy repeat: longest first).
RECURSIVE Ends(_, _, _, _)
RECURSIVE RepeatEnds(_, _, _, _, _, _)
Ends(items, i, text, pos) ==
    IF i > Len(items) THEN <<pos>>
    ELSE LET item == items[i]
         IN IF item.kind = "wordb"
            THEN IF WordBoundary(text, pos)
                 THEN Ends(items, i + 1, text, pos) ELSE <<>>
            ELSE IF item.q = "one"
            THEN IF pos < Len(text) /\ ItemMatches(item, text[pos + 1])
                 THEN Ends(items, i + 1, text, pos + 1) ELSE <<>>
            ELSE RepeatEnds(items, i, text, pos, RunLength(item, text, pos),
                            IF item.q = "plus" THEN 1 ELSE 0)

\* items[i] repeated k, k - 1, ..., least times, then the rest.
RepeatEnds(items, i, text, pos, k, least) ==
    IF k < least THEN <<>>
    ELSE Ends(items, i + 1, text, pos + k)
             \o RepeatEnds(items, i, text, pos, k - 1, least)

\* The alternatives are tried from left to right.
RECURSIVE AltEnds(_, _, _, _)
AltEnds(alts, a, text, pos) ==
    IF a > Len(alts) THEN <<>>
    ELSE Ends(alts[a], 1, text, pos) \o AltEnds(alts, a + 1, text, pos)

NoMatch == -1

\* The first end in ends that is allowed: after an empty match the next
\* match at the same position must not be empty.
RECURSIVE FirstEnd(_, _, _, _)
FirstEnd(ends, k, s, nonempty) ==
    IF k > Len(ends) THEN NoMatch
    ELSE IF nonempty /\ ends[k] = s THEN FirstEnd(ends, k + 1, s, nonempty)
    ELSE ends[k]

\* The leftmost match that starts at s or later: <<start, end>>, or <<>>.
RECURSIVE SearchFrom(_, _, _, _, _)
SearchFrom(alts, text, s, pos, must_advance) ==
    IF s > Len(text) THEN <<>>
    ELSE LET e == FirstEnd(AltEnds(alts, 1, text, s), 1, s,
                           must_advance /\ s = pos)
         IN IF e # NoMatch THEN <<s, e>>
            ELSE SearchFrom(alts, text, s + 1, pos, must_advance)

\* compiled_pattern.finditer(full_text): the matches <<start, end>> from
\* left to right; each search starts where the last match ended.
RECURSIVE finditer_from(_, _, _, _)
finditer_from(alts, text, pos, must_advance) ==
    LET m == SearchFrom(alts, text, pos, pos, must_advance)
    IN IF m = <<>> THEN <<>>
       ELSE <<m>> \o finditer_from(alts, text, m[2], m[1] = m[2])

finditer(alts, text) == finditer_from(alts, text, 0, FALSE)

\* regex.escape(query) compiled: the characters of the query, literally.
EscapedLiteral(query) == [k \in 1..Len(query) |-> Lit(query[k])]

\* regex.compile(query) of a user pattern over the characters
\*   letters, " ", "-"   literals        "."  any character
\*   "*"  greedy repeat of the item before it      "|"  alternation
\*   "("  opens a group: no ")" can follow here, so the group is unclosed
\* error = TRUE when regex.error is raised.
RECURSIVE CompileFrom(_, _, _, _)
CompileFrom(query, i, alts, cur) ==
    IF i > Len(query) THEN [error |-> FALSE, alts |-> Append(alts, cur)]
    ELSE LET ch == query[i]
         IN CASE ch = "|" -> CompileFrom(query, i + 1, Append(alts, cur), <<>>)
              [] ch = "(" -> [error |-> TRUE, alts |-> <<>>]
              [] ch = "*" ->
                    IF cur = <<>> \/ cur[Len(cur)].q # "one"
                    THEN [error |-> TRUE, alts |-> <<>>]
                    ELSE CompileFrom(query, i + 1, alts,
                             [cur EXCEPT ![Len(cur)] = [@ EXCEPT !.q = "star"]])
              [] ch = "." -> CompileFrom(query, i + 1, alts, Append(cur, AnyChar))
              [] OTHER -> CompileFrom(query, i + 1, alts, Append(cur, Lit(ch)))

regex_compile(query) == CompileFrom(query, 1, <<>>, <<>>)

\* str.split(): the runs of non-whitespace characters.
RECURSIVE SplitRuns(_, _, _, _)
SplitRuns(s, i, keep, cur) ==
    IF i > Len(s) THEN (IF cur = <<>> THEN <<>> ELSE <<cur>>)
    ELSE IF s[i] \in keep THEN SplitRuns(s, i + 1, keep, Append(cur, s[i]))
    ELSE (IF cur = <<>> THEN <<>> ELSE <<cur>>) \o SplitRuns(s, i + 1, keep, <<>>)

AllChars == WordChars \cup SpaceChars \cup PunctChars \cup {"|"}

\* Mutant of TokenPattern: the characters of the token alone.
TokenPattern_Literal(token) == [k \in 1..Len(token) |-> Lit(token[k])]

\* One token of _build_ignore_punct_pattern: its characters with
\* [\p{P}]* between them.
RECURSIVE TokenPattern(_)
TokenPattern(token) ==
    IF Len(token) = 1 THEN <<Lit(token[1])>>
    ELSE <<Lit(token[1]), PunctStar>> \o TokenPattern(Tail(token))

\* The token patterns joined by [\p{P}\s]+.
RECURSIVE JoinTokenPatterns(_)
JoinTokenPatterns(tokens) ==
    IF Len(tokens) = 0 THEN <<>>
    ELSE IF Len(tokens) = 1 THEN TokenPattern(tokens[1])
    ELSE TokenPattern(tokens[1]) \o <<PunctSpacePlus>>
             \o JoinTokenPatterns(Tail(tokens))

\* The items of the pattern; <<>> is the empty pattern ''.
_build_ignore_punct_pattern(query, word_boundary) ==
    LET tokens == SplitRuns(query, 1, AllChars \ SpaceChars, <<>>)
        pattern == JoinTokenPatterns(tokens)
    IN IF tokens = <<>> THEN <<>>
       ELSE IF word_boundary THEN <<WordB>> \o pattern \o <<WordB>>
       ELSE pattern

\* --------------------------------------------------- full-text filter
\* _extract_fts5_tokens: regex.split(r'[^\w]+', query) without the empty
\* strings, the runs of word characters.
_extract_fts5_tokens(query) == SplitRuns(query, 1, WordChars, <<>>)

\* unicode61 folds the case of a token.
Lower(c) == CASE c = "O" -> "o" [] c = "R" -> "r" [] OTHER -> c
Fold(token) == [k \in 1..Len(token) |-> Lower(token[k])]

\* The tokens documents_fts holds for a full_text.
FtsTokens(text) ==
    LET runs == SplitRuns(text, 1, WordChars, <<>>)
    IN [k \in 1..Len(runs) |-> Fold(runs[k])]

\* The barewords the FTS5 query syntax reserves (case-sensitive).
FTS5Keywords == {<<"A", "N", "D">>, <<"O", "R">>, <<"N", "O", "T">>}

\* The MATCH arguments the three modes build.
PhraseQuery(tokens) == [kind |-> "phrase", tokens |-> tokens]
PrefixOrQuery(tokens) == [kind |-> "prefix_or", tokens |-> tokens]
NoFtsFilter == [kind |-> "all", tokens |-> <<>>]

\* "tok*" with tok a reserved word is a syntax error: the statement raises
\* sqlite3.OperationalError.  A quoted phrase never is.
FtsSyntaxError(fts_query) ==
    /\ fts_query.kind = "prefix_or"
    /\ \E k \in 1..Len(fts_query.tokens) : fts_query.tokens[k] \in FTS5Keywords

IsPrefix(p, t) == Len(p) <= Len(t) /\ SubSeq(t, 1, Len(p)) = p

\* documents_fts MATCH ? on one row.
FtsMatch(fts_query, text) ==
    LET have == FtsTokens(text)
        want == [k \in 1..Len(fts_query.tokens) |-> Fold(fts_query.tokens[k])]
    IN CASE fts_query.kind = "phrase" ->
                \E i \in 0..(Len(have) - Len(want)) :
                    SubSeq(have, i + 1, i + Len(want)) = want
         [] fts_query.kind = "prefix_or" ->
                \E k \in 1..Len(want) : \E j \in 1..Len(have) :
                    IsPrefix(want[k], have[j])
         [] OTHER -> TRUE

\* ------------------------------------------------------ candidate SELECT
\* ISO dates are TEXT and compare as strings, character by character.
DateChars == <<"0", "1", "2", "9">>
CharRank(c) == CHOOSE k \in 1..Len(DateChars) : DateChars[k] = c

RECURSIVE StrLess(_, _)
StrLess(x, y) ==
    IF Len(y) = 0 THEN FALSE
    ELSE IF Len(x) = 0 THEN TRUE
    ELSE IF x[1] # y[1] THEN CharRank(x[1]) < CharRank(y[1])
    ELSE StrLess(Tail(x), Tail(y))

StrLE(x, y) == x = y \/ StrLess(x, y)

\* episode_date of a record whose id has no date: NULL.
NullDate == <<"NULL">>

\* Mutant of FiltersPass: "d.episode_date < ?" for date_to.
FiltersPass_ExclusiveTo(d, date_from, date_to, sources) ==
    /\ date_from # <<>> => (d[5] # NullDate /\ StrLE(date_from, d[5]))
    /\ date_to # <<>> => (d[5] # NullDate /\ StrLess(d[5], date_to))
    /\ sources # {} => d[3] \in sources

\* The filters of the WHERE clause on a documents row d: "if date_from:",
\* "if date_to:", "if sources and len(sources) > 0:" add a condition; a
\* comparison with NULL is not true.
FiltersPass(d, date_from, date_to, sources) ==
    /\ date_from # <<>> => (d[5] # NullDate /\ StrLE(date_from, d[5]))
    /\ date_to # <<>> => (d[5] # NullDate /\ StrLE(d[5], date_to))
    /\ sources # {} => d[3] \in sources

\* The rows of a set of <<key, ...>> tuples with distinct keys, by key.
RECURSIVE SortByKey(_)
SortByKey(rows) ==
    IF rows = {} THEN <<>>
    ELSE LET first == CHOOSE r \in rows : \A q \in rows : r[1] <= q[1]
         IN <<first>> \o SortByKey(rows \ {first})

\* SELECT m.doc_id, fts.full_text FROM documents_fts fts
\*   JOIN fts_doc_mapping m ON fts.rowid = m.fts_rowid
\*   JOIN documents d ON m.doc_id = d.doc_id
\*   WHERE (documents_fts MATCH ? | 1=1) AND <filters>
\* as <<rowid, doc_id, full_text>> in rowid order; raised when the MATCH
\* argument is a syntax error.
SelectCandidates(st, fts_query, date_from, date_to, sources) ==
    IF FtsSyntaxError(fts_query) THEN [raised |-> TRUE, results |-> <<>>]
    ELSE LET joined == {p \in st.fts \X st.mapping :
                           /\ p[1][1] = p[2][1]
                           /\ FtsMatch(fts_query, p[1][2])
                           /\ \E d \in st.documents :
                                 /\ d[1] = p[2][2]
                                 /\ FiltersPass(d, date_from, date_to, sources)}
         IN [raised |-> FALSE,
             results |-> SortByKey({<<p[1][1], p[2][2], p[1][2]>> : p \in joined})]

\* ------------------------------------------------- position classifier
\* _get_segment_boundaries: SELECT char_offset, LENGTH(segment_text) FROM
\* segments WHERE doc_id = ? ORDER BY char_offset.
_get_segment_boundaries(st, doc_id) ==
    SortByKey({<<r[5], Len(r[3])>> : r \in {x \in st.segments : x[1] = doc_id}})

\* full_text[a:b]
PySlice(text, a, b) == SubSeq(text, a + 1, Min(b, Len(text)))

\* str.find(' ') and str.rfind(' '): the index, or -1.
Find(text, ch) ==
    IF \E k \in 1..Len(text) : text[k] = ch
    THEN (CHOOSE k \in 1..Len(text) :
              text[k] = ch /\ \A j \in 1..(k - 1) : text[j] # ch) - 1
    ELSE -1

RFind(text, ch) ==
    IF \E k \in 1..Len(text) : text[k] = ch
    THEN (CHOOSE k \in 1..Len(text) :
              text[k] = ch /\ \A j \in (k + 1)..Len(text) : text[j] # ch) - 1
    ELSE -1

\* Mutant of bisect_right: bisect_left, the entries equal to x not counted.
bisect_right_Left(seg_offsets, x) ==
    Cardinality({k \in 1..Len(seg_offsets) : seg_offsets[k] < x})

\* bisect.bisect_right(seg_offsets, x) on the sorted list.
bisect_right(seg_offsets, x) ==
    Cardinality({k \in 1..Len(seg_offsets) : seg_offsets[k] <= x})

\* Mutant of _classify_hit_position: 'end' with ">=" where a last space is.
_classify_hit_position_EndAtSpace(hit_start, hit_end, full_text, seg_boundaries, seg_offsets) ==
    LET idx0 == bisect_right(seg_offsets, hit_start) - 1
        idx == IF idx0 < 0 THEN 0 ELSE idx0
        seg_offset == seg_boundaries[idx + 1][1]
        seg_len == seg_boundaries[idx + 1][2]
        offset_in_seg == hit_start - seg_offset
        match_len == hit_end - hit_start
        seg_text == PySlice(full_text, seg_offset, seg_offset + seg_len)
        first_space == Find(seg_text, " ")
        last_space == RFind(seg_text, " ")
    IN (IF first_space = -1
        THEN (IF offset_in_seg = 0 THEN {"start"} ELSE {})
        ELSE (IF offset_in_seg < first_space THEN {"start"} ELSE {}))
       \cup
       (IF last_space = -1
        THEN (IF offset_in_seg + match_len >= seg_len THEN {"end"} ELSE {})
        ELSE (IF offset_in_seg + match_len >= last_space THEN {"end"} ELSE {}))
       \cup
       (IF offset_in_seg + match_len > seg_len THEN {"cross"} ELSE {})

\* Mutant of _classify_hit_position: 'end' only for a match that ends
\* inside the segment.
_classify_hit_position_EndInside(hit_start, hit_end, full_text, seg_boundaries, seg_offsets) ==
    LET idx0 == bisect_right(seg_offsets, hit_start) - 1
        idx == IF idx0 < 0 THEN 0 ELSE idx0
        seg_offset == seg_boundaries[idx + 1][1]
        seg_len == seg_boundaries[idx + 1][2]
        offset_in_seg == hit_start - seg_offset
        match_len == hit_end - hit_start
        seg_text == PySlice(full_text, seg_offset, seg_offset + seg_len)
        first_space == Find(seg_text, " ")
        last_space == RFind(seg_text, " ")
    IN (IF first_space = -1
        THEN (IF offset_in_seg = 0 THEN {"start"} ELSE {})
        ELSE (IF offset_in_seg < first_space THEN {"start"} ELSE {}))
       \cup
       (IF last_space = -1
        THEN (IF offset_in_seg + match_len = seg_len THEN {"end"} ELSE {})
        ELSE (IF /\ offset_in_seg + match_len > last_space
                 /\ offset_in_seg + match_len <= seg_len
              THEN {"end"} ELSE {}))
       \cup
       (IF offset_in_seg + match_len > seg_len THEN {"cross"} ELSE {})

\* The labels of a hit: the segment is the last one that starts at or
\* before hit_start (the first one when none does).
_classify_hit_position(hit_start, hit_end, full_text, seg_boundaries, seg_offsets) ==
    LET idx0 == bisect_right(seg_offsets, hit_start) - 1
        idx == IF idx0 < 0 THEN 0 ELSE idx0
        seg_offset == seg_boundaries[idx + 1][1]
        seg_len == seg_boundaries[idx + 1][2]
        offset_in_seg == hit_start - seg_offset
        match_len == hit_end - hit_start
        seg_text == PySlice(full_text, seg_offset, seg_offset + seg_len)
        first_space == Find(seg_text, " ")
        last_space == RFind(seg_text, " ")
    IN (IF first_space = -1
        THEN (IF offset_in_seg = 0 THEN {"start"} ELSE {})
        ELSE (IF offset_in_seg < first_space THEN {"start"} ELSE {}))
       \cup
       (IF last_space = -1
        THEN (IF offset_in_seg + match_len >= seg_len THEN {"end"} ELSE {})
        ELSE (IF offset_in_seg + match_len > last_space THEN {"end"} ELSE {}))
       \cup
       (IF offset_in_seg + match_len > seg_len THEN {"cross"} ELSE {})

\* ------------------------------------------------------------ the hits
\* Mutant of KeepMatch: the labels must all be asked for.
KeepMatch_AllLabels(m, full_text, seg_boundaries, position_filters) ==
    IF position_filters # {} /\ seg_boundaries # <<>>
    THEN LET positions == _classify_hit_position(m[1], m[2], full_text,
                 seg_boundaries,
                 [k \in 1..Len(seg_boundaries) |-> seg_boundaries[k][1]])
         IN positions # {} /\ positions \subseteq position_filters
    ELSE TRUE

\* "if position_filters and seg_boundaries: ... if not positions &
\* position_filters: continue": is the match m = <<start, end>> a hit.
KeepMatch(m, full_text, seg_boundaries, position_filters) ==
    IF position_filters # {} /\ seg_boundaries # <<>>
    THEN LET positions == _classify_hit_position(m[1], m[2], full_text,
                 seg_boundaries,
                 [k \in 1..Len(seg_boundaries) |-> seg_boundaries[k][1]])
         IN positions \cap position_filters # {}
    ELSE TRUE

\* Mutant of DocHits: with a position filter a match is appended once for
\* each of its labels that is asked for.
RECURSIVE DocHits_PerLabel(_, _, _, _, _)
DocHits_PerLabel(doc_id, matches, full_text, seg_boundaries, position_filters) ==
    IF matches = <<>> THEN <<>>
    ELSE LET hit == <<doc_id, matches[1][1]>>
             n == IF position_filters # {} /\ seg_boundaries # <<>>
                  THEN Cardinality(position_filters \cap
                           _classify_hit_position(matches[1][1], matches[1][2],
                               full_text, seg_boundaries,
                               [k \in 1..Len(seg_boundaries) |-> seg_boundaries[k][1]]))
                  ELSE 1
         IN [k \in 1..n |-> hit]
            \o DocHits_PerLabel(doc_id, Tail(matches), full_text, seg_boundaries,
                                position_filters)

\* The matches of one candidate that are kept, as (doc_id, match.start()).
RECURSIVE DocHits(_, _, _, _, _)
DocHits(doc_id, matches, full_text, seg_boundaries, position_filters) ==
    IF matches = <<>> THEN <<>>
    ELSE (IF KeepMatch(matches[1], full_text, seg_boundaries, position_filters)
          THEN <<<<doc_id, matches[1][1]>>>> ELSE <<>>)
         \o DocHits(doc_id, Tail(matches), full_text, seg_boundaries,
                    position_filters)

\* "for doc_id, full_text in results: ... for match in
\* compiled_pattern.finditer(full_text): ... hits.append(...)"
RECURSIVE CollectHits(_, _, _, _)
CollectHits(st, results, alts, position_filters) ==
    IF results = <<>> THEN <<>>
    ELSE LET doc_id == results[1][2]
             full_text == results[1][3]
             seg_boundaries == IF position_filters # {}
                               THEN _get_segment_boundaries(st, doc_id) ELSE <<>>
         IN DocHits(doc_id, finditer(alts, full_text), full_text,
                    seg_boundaries, position_filters)
            \o CollectHits(st, Tail(results), alts, position_filters)

Returned(hits) == [raised |-> FALSE, hits |-> hits]
Raised == [raised |-> TRUE, hits |-> <<>>]

\* --------------------------------------------------------- the three modes
_search_fts5_exact(st, query, date_from, date_to, sources, ignore_punct, position_filters) ==
    LET fts_tokens == _extract_fts5_tokens(query)
        sel == SelectCandidates(st, PhraseQuery(fts_tokens), date_from,
                                date_to, sources)
        pattern == IF ignore_punct
                   THEN _build_ignore_punct_pattern(query, TRUE)
                   ELSE <<WordB>> \o EscapedLiteral(query) \o <<WordB>>
    IN IF fts_tokens = <<>> THEN Returned(<<>>)
       ELSE IF sel.raised THEN Raised
       ELSE IF pattern = <<>> THEN Returned(<<>>)
       ELSE Returned(CollectHits(st, sel.results, <<pattern>>, position_filters))

\* Mutant of _search_fts5_partial: every document is a candidate.
_search_fts5_partial_FullScan(st, query, date_from, date_to, sources, ignore_punct, position_filters) ==
    LET sel == SelectCandidates(st, NoFtsFilter, date_from, date_to, sources)
        escaped_pattern == IF ignore_punct
                           THEN _build_ignore_punct_pattern(query, FALSE)
                           ELSE EscapedLiteral(query)
    IN IF sel.raised THEN Raised
       ELSE IF escaped_pattern = <<>> THEN Returned(<<>>)
       ELSE Returned(CollectHits(st, sel.results, <<escaped_pattern>>,
                                 position_filters))

_search_fts5_partial(st, query, date_from, date_to, sources, ignore_punct, position_filters) ==
    LET fts_tokens == _extract_fts5_tokens(query)
        fts_query == IF fts_tokens # <<>> THEN PrefixOrQuery(fts_tokens)
                     ELSE NoFtsFilter
        sel == SelectCandidates(st, fts_query, date_from, date_to, sources)
        escaped_pattern == IF ignore_punct
                           THEN _build_ignore_punct_pattern(query, FALSE)
                           ELSE EscapedLiteral(query)
    IN IF sel.raised THEN Raised
       ELSE IF escaped_pattern = <<>> THEN Returned(<<>>)
       ELSE Returned(CollectHits(st, sel.results, <<escaped_pattern>>,
                                 position_filters))

\* regex.findall(r'\w{2,}', query): the runs of two or more word characters.
PotentialTokens(query) ==
    LET runs == SplitRuns(query, 1, WordChars, <<>>)
    IN SelectSeq(runs, LAMBDA t : Len(t) >= 2)

_search_fts5_regex(st, query, date_from, date_to, sources, position_filters) ==
    LET potential_tokens == PotentialTokens(query)
        fts_query == IF potential_tokens # <<>>
                     THEN PrefixOrQuery(<<potential_tokens[1]>>)
                     ELSE NoFtsFilter
        sel == SelectCandidates(st, fts_query, date_from, date_to, sources)
        compiled_regex == regex_compile(query)
    IN IF sel.raised THEN Raised
       ELSE IF compiled_regex.error THEN Returned(<<>>)
       ELSE Returned(CollectHits(st, sel.results, compiled_regex.alts,
                                 position_filters))

\* search_hits -> _search_fts5: the mode decides.
search_hits(st, req) ==
    CASE req.search_mode = "exact" ->
             _search_fts5_exact(st, req.query, req.date_from, req.date_to,
                                req.sources, req.ignore_punct,
                                req.position_filters)
      [] req.search_mode = "partial" ->
             _search_fts5_partial(st, req.query, req.date_from, req.date_to,
                                  req.sources, req.ignore_punct,
                                  req.position_filters)
      [] req.search_mode = "regex" ->
             _search_fts5_regex(st, req.query, req.date_from, req.date_to,
                                req.sources, req.position_filters)
      [] OTHER -> Raised

\* ------------------------------------------------- search_hits, alone
\* The characters of the transcripts searched.
TextChars == {"a", " ", "-"}

\* The segment texts of the transcripts whose full_text has at most n
\* characters (n >= 0) and at least one segment, over the characters chars.
RECURSIVE SegListsWithin(_, _)
SegListsWithin(chars, n) ==
    {<<t>> : t \in SeqsUpTo(chars, n)}
        \cup UNION {{<<t>> \o rest : rest \in SegListsWithin(chars, n - Len(t) - 1)} :
                       t \in SeqsUpTo(chars, n - 1)}

\* Longer transcripts: "a a a" in two segments and in one, "a-a a",
\* "a-a aa"; and "Ra", a word that has "a" inside but does not start with it.
ExtraTranscripts ==
    {<< <<"a", " ", "a">>, <<"a">> >>,
     << <<"a", " ", "a", " ", "a">> >>,
     << <<"a", "-", "a">>, <<"a">> >>,
     << <<"a", "-", "a">>, <<"a", "a">> >>,
     << <<"R", "a">> >>}

Transcripts == {<<>>} \cup SegListsWithin(TextChars, MaxDocLen) \cup ExtraTranscripts

Date09 == <<"0", "9">>
Date10 == <<"1", "0">>

\* A record of the store: the source and date load_worker takes from the
\* record id, and the segment texts of its JSON.
FirstRecord(segs) == [source |-> "s0", episode_date |-> Date09, segs |-> segs]
SecondRecord == [source |-> "s1", episode_date |-> Date10,
                 segs |-> << <<"a", "a">>, <<"a", " ", "-">> >>]
UndatedRecord == [source |-> "s1", episode_date |-> NullDate,
                  segs |-> << <<"a">> >>]

\* The rows load_worker makes of record rec with index rec_idx.
RecordRows(rec_idx, rec) ==
    LET data == [root |-> "list",
                 segs |-> [k \in 1..Len(rec.segs) |->
                              [text |-> rec.segs[k], has_times |-> TRUE]]]
    IN [load_worker_on(rec_idx, data) EXCEPT
           !.document_row = <<rec_idx, UuidOf(rec_idx), rec.source, "episode",
                              rec.episode_date, "title">>]

\* The store a completed build of the records leaves.
BuiltStore(recs) ==
    [exists |-> TRUE, tables |-> TRUE, indexes |-> TRUE, optimized |-> TRUE,
     documents |-> {RecordRows(i - 1, recs[i]).document_row : i \in 1..Len(recs)},
     fts |-> {<<i, RecordRows(i - 1, recs[i]).full_text>> : i \in 1..Len(recs)},
     mapping |-> {<<i, i - 1>> : i \in 1..Len(recs)},
     segments |-> UNION {Range(RecordRows(i - 1, recs[i]).segment_rows) :
                            i \in 1..Len(recs)}]

\* The first records of the stores of three documents.
LibraryTranscripts ==
    {<<>>, << <<"a">> >>, << <<"-">> >>, << <<"a", " ", "a">>, <<"a">> >>}

\* A store of one document, or of three from two sources with two dates
\* and one without a date.
SearchStores ==
    {BuiltStore(<<FirstRecord(t)>>) : t \in Transcripts}
        \cup {BuiltStore(<<FirstRecord(t), SecondRecord, UndatedRecord>>) :
                 t \in LibraryTranscripts}

\* The queries: the empty one, white space, punctuation, words, a phrase,
\* patterns that match the empty string, unclosed groups, and a reserved
\* word of the full-text syntax.
Queries ==
    {<<>>, <<" ">>, <<"-">>, <<"a">>, <<"a", "a">>, <<"a", " ", "a">>,
     <<"a", "-">>, <<"a", "*">>, <<"|", "a">>, <<".">>, <<"(">>,
     <<"a", "a", "(">>, <<"O", "R", "(">>, <<"a", "a", "|", "-">>}

\* <<date_from, date_to>>
DateRanges == {<< <<>>, <<>> >>, <<Date10, <<>> >>, << <<>>, Date09>>}
SourceSets == {{}, {"s1"}}
PositionFilters == {{}, {"start", "end"}, {"cross"}}

InitSearch ==
    /\ mpc = "none"
    /\ index_path = "store"
    /\ nFiles = 0
    /\ badFiles = {}
    /\ segsPerFile = 0
    /\ store \in SearchStores
    /\ tx = NoTx
    /\ wpc = "idle"
    /\ w = WriterLocals
    /\ write_queue = <<>>
    /\ finished_producers = FALSE
    /\ fut = <<>>
    /\ futIdx = 0
    /\ last = [by |-> "none", db |-> FALSE]
    /\ nCommits = 0
    /\ OffsetsIdle
    /\ spc = "ready"
    /\ sreq = NoRequest
    /\ sres = NoResult
    /\ ClassifyIdle
    /\ LookupIdle

\* index.search_hits(**req) on the store: it returns the hits or raises.
SearchHits(req) ==
    /\ spc = "ready"
    /\ sreq' = req
    /\ sres' = search_hits(store, req)
    /\ spc' = IF sres'.raised THEN "raised" ELSE "returned"
    /\ UNCHANGED <<buildVars, offsetVars, classifyVars, lookupVars>>

SearchExact ==
    \E q \in Queries, dr \in DateRanges, src \in SourceSets,
       ip \in BOOLEAN, pf \in PositionFilters :
        SearchHits([query |-> q, search_mode |-> "exact", date_from |-> dr[1],
                    date_to |-> dr[2], sources |-> src, ignore_punct |-> ip,
                    position_filters |-> pf])

SearchPartial ==
    \E q \in Queries, dr \in DateRanges, src \in SourceSets,
       ip \in BOOLEAN, pf \in PositionFilters :
        SearchHits([query |-> q, search_mode |-> "partial", date_from |-> dr[1],
                    date_to |-> dr[2], sources |-> src, ignore_punct |-> ip,
                    position_filters |-> pf])

SearchRegex ==
    \E q \in Queries, dr \in DateRanges, src \in SourceSets,
       pf \in PositionFilters :
        SearchHits([query |-> q, search_mode |-> "regex", date_from |-> dr[1],
                    date_to |-> dr[2], sources |-> src, ignore_punct |-> FALSE,
                    position_filters |-> pf])

NextSearch ==
    \/ SearchExact
    \/ SearchPartial
    \/ SearchRegex

SpecSearch == InitSearch /\ [][NextSearch]_vars

\* --------------------------------------- _classify_hit_position, alone
\* The segment texts of a document whose full_text has at most
\* MaxLayoutLen characters.
LayoutChars == {"a", " "}
Layouts == SegListsWithin(LayoutChars, MaxLayoutLen)

\* What the loader makes of the segment texts.
LayoutData(segs) ==
    _episode_to_string_and_segments(
        [root |-> "list",
         segs |-> [k \in 1..Len(segs) |-> [text |-> segs[k], has_times |-> TRUE]]])

InitClassify ==
    /\ mpc = "none"
    /\ index_path = "store"
    /\ nFiles = 0
    /\ badFiles = {}
    /\ segsPerFile = 0
    /\ store = NoStore
    /\ tx = NoTx
    /\ wpc = "idle"
    /\ w = WriterLocals
    /\ write_queue = <<>>
    /\ finished_producers = FALSE
    /\ fut = <<>>
    /\ futIdx = 0
    /\ last = [by |-> "none", db |-> FALSE]
    /\ nCommits = 0
    /\ OffsetsIdle
    /\ SearchIdle
    /\ LookupIdle
    /\ cpc = "ready"
    /\ cin \in {[NoSpan EXCEPT !.segs = segs] : segs \in Layouts}
    /\ cres = {}

\* _classify_hit_position(hit_start, hit_end, full_text, seg_boundaries,
\* seg_offsets) as the hit loops call it: the boundaries are the
\* (char_offset, length) of the document's segments in offset order.
Classify(hit_start, hit_end) ==
    /\ cpc = "ready"
    /\ LET d == LayoutData(cin.segs)
           seg_boundaries == [k \in 1..Len(d.segments_data) |->
                                 <<d.segments_data[k].char_offset,
                                   Len(d.segments_data[k].text)>>]
           seg_offsets == [k \in 1..Len(seg_boundaries) |-> seg_boundaries[k][1]]
       IN cres' = _classify_hit_position(hit_start, hit_end, d.full_text,
                                         seg_boundaries, seg_offsets)
    /\ cin' = [cin EXCEPT !.hit_start = hit_start, !.hit_end = hit_end]
    /\ cpc' = "classified"
    /\ UNCHANGED <<buildVars, offsetVars, searchVars, lookupVars>>

NextClassify ==
    \E hit_start \in 0..Len(LayoutData(cin.segs).full_text) :
        \E hit_end \in hit_start..Len(LayoutData(cin.segs).full_text) :
            Classify(hit_start, hit_end)

SpecClassify == InitClassify /\ [][NextClassify]_vars

\* ---- search_hits
\* The full_text of document doc_id in the store.
FullTextOf(doc_id) ==
    LET m == CHOOSE x \in store.mapping : x[2] = doc_id
    IN (CHOOSE f \in store.fts : f[1] = m[1])[2]

\* The call with other arguments, on the same store.
HitsOf(req) == search_hits(store, req).hits
HitCount(req) == Len(HitsOf(req))

\* C11: every hit (doc_id, char_offset) a search returns, in every mode and
\* for every query, has 0 <= char_offset < len(full_text[doc_id]).
C11_HitInBounds ==
    spc = "returned" =>
        \A k \in 1..Len(sres.hits) :
            /\ 0 <= sres.hits[k][2]
            /\ sres.hits[k][2] < Len(FullTextOf(sres.hits[k][1]))

\* C12: a query without a word character (empty, white space only,
\* punctuation only) gives zero hits in each of the three modes, whatever
\* the store holds.
C12_NoTokenNoHits ==
    (spc # "ready" /\ \A k \in 1..Len(sreq.query) : sreq.query[k] \notin WordChars)
        => (spc = "returned" /\ sres.hits = <<>>)

\* C13: in regex mode a pattern that does not compile never raises to the
\* caller: the search returns an empty hit list, whatever the store and
\* the filters.
C13_BadPatternNoRaise ==
    (spc # "ready" /\ sreq.search_mode = "regex" /\ regex_compile(sreq.query).error)
        => (spc = "returned" /\ sres.hits = <<>>)

\* The request without one of its filters, and without any.
WithoutDateFrom(req) == [req EXCEPT !.date_from = <<>>]
WithoutDateTo(req) == [req EXCEPT !.date_to = <<>>]
WithoutSources(req) == [req EXCEPT !.sources = {}]
WithoutPosition(req) == [req EXCEPT !.position_filters = {}]
Unfiltered(req) ==
    WithoutDateFrom(WithoutDateTo(WithoutSources(WithoutPosition(req))))

\* C14: for the same store, query, mode and ignore_punct, a search with a
\* date_from, date_to, sources or position filter returns at most as many
\* hits as the search without that filter, and at most as many as the
\* search without any filter.
C14_FilterMonotone ==
    spc = "returned" =>
        /\ Len(sres.hits) <= HitCount(WithoutDateFrom(sreq))
        /\ Len(sres.hits) <= HitCount(WithoutDateTo(sreq))
        /\ Len(sres.hits) <= HitCount(WithoutSources(sreq))
        /\ Len(sres.hits) <= HitCount(WithoutPosition(sreq))
        /\ HitCount(WithoutPosition(sreq)) <= HitCount(Unfiltered(sreq))
        /\ ~search_hits(store, Unfiltered(sreq)).raised

\* C14 witness: a search with a date filter and a position filter returned
\* hits, fewer than without the position filter, and that one fewer than
\* without any filter.
C14_Witness ==
    /\ spc = "returned"
    /\ sreq.date_to # <<>>
    /\ sreq.position_filters # {}
    /\ 0 < Len(sres.hits)
    /\ Len(sres.hits) < HitCount(WithoutPosition(sreq))
    /\ HitCount(WithoutPosition(sreq)) < HitCount(Unfiltered(sreq))

\* The documents row of doc_id, and the number an ISO date string of two
\* digits stands for (strings of equal length over digits sort as numbers).
DocumentOf(doc_id) == CHOOSE d \in store.documents : d[1] = doc_id
Digits == <<"0", "1", "2", "3", "4", "5", "6", "7", "8", "9">>
DigitOf(ch) == CHOOSE n \in 0..9 : Digits[n + 1] = ch
DateNumber(date) == 10 * DigitOf(date[1]) + DigitOf(date[2])

\* Is document doc_id inside the bounds and the sources of the request.
InsideFilters(doc_id, req) ==
    LET d == DocumentOf(doc_id)
    IN /\ req.date_from # <<>> =>
              (d[5] # NullDate /\ DateNumber(req.date_from) <= DateNumber(d[5]))
       /\ req.date_to # <<>> =>
              (d[5] # NullDate /\ DateNumber(d[5]) <= DateNumber(req.date_to))
       /\ req.sources # {} => d[3] \in req.sources

WithoutDatesAndSources(req) == WithoutDateFrom(WithoutDateTo(WithoutSources(req)))

\* C15: with date and source filters the hits are exactly the hits of the
\* search without them, restricted to the documents whose episode_date d
\* has date_from <= d <= date_to (both inclusive, as strings) and whose
\* source is in the sources set; no hit is from a document outside.
C15_FiltersRestrict ==
    spc = "returned" =>
        /\ sres.hits = SelectSeq(HitsOf(WithoutDatesAndSources(sreq)),
                                 LAMBDA h : InsideFilters(h[1], sreq))
        /\ \A k \in 1..Len(sres.hits) : InsideFilters(sres.hits[k][1], sreq)

\* C15 witness: a search with date_to equal to a document's date returned
\* a hit of that document and dropped hits of the later and the undated
\* document.
C15_Witness ==
    /\ spc = "returned"
    /\ sreq.date_to # <<>>
    /\ \E k \in 1..Len(sres.hits) :
           DocumentOf(sres.hits[k][1])[5] = sreq.date_to
    /\ \E k \in 1..HitCount(WithoutDatesAndSources(sreq)) :
           DocumentOf(HitsOf(WithoutDatesAndSources(sreq))[k][1])[5] = NullDate
    /\ \E k \in 1..HitCount(WithoutDatesAndSources(sreq)) :
           DocumentOf(HitsOf(WithoutDatesAndSources(sreq))[k][1])[5] = Date10

\* The verification pattern of the request, as the mode builds it.
PatternOf(req) ==
    CASE req.search_mode = "exact" ->
             IF req.ignore_punct
             THEN <<_build_ignore_punct_pattern(req.query, TRUE)>>
             ELSE << <<WordB>> \o EscapedLiteral(req.query) \o <<WordB>> >>
      [] req.search_mode = "partial" ->
             IF req.ignore_punct
             THEN <<_build_ignore_punct_pattern(req.query, FALSE)>>
             ELSE <<EscapedLiteral(req.query)>>
      [] OTHER -> regex_compile(req.query).alts

\* The match behind hit k of the hit list hits of the request without a
\* position filter: the hits of one document follow its matches in order.
MatchOfHit(hits, k, req) ==
    LET doc_id == hits[k][1]
        nth == Cardinality({i \in 1..k : hits[i][1] = doc_id})
    IN finditer(PatternOf(req), FullTextOf(doc_id))[nth]

\* The labels the classifier gives a match of document doc_id; a document
\* without segments has no segment to label a match by.
LabelsOf(m, doc_id) ==
    LET seg_boundaries == _get_segment_boundaries(store, doc_id)
    IN IF seg_boundaries = <<>> THEN {}
       ELSE _classify_hit_position(m[1], m[2], FullTextOf(doc_id), seg_boundaries,
                [k \in 1..Len(seg_boundaries) |-> seg_boundaries[k][1]])

\* The elements of seq at the indexes in idx, in order.
RECURSIVE Pick(_, _, _)
Pick(seq, idx, k) ==
    IF k > Len(seq) THEN <<>>
    ELSE (IF k \in idx THEN <<seq[k]>> ELSE <<>>) \o Pick(seq, idx, k + 1)

\* C16: with a position filter, in all three modes and for every document,
\* a match is kept if and only if the labels the classifier gives its
\* (start, end) have a label in common with position_filters.
C16_KeptIffLabelled ==
    (spc = "returned" /\ sreq.position_filters # {}) =>
        LET all == HitsOf(WithoutPosition(sreq))
            kept == {k \in 1..Len(all) :
                        LabelsOf(MatchOfHit(all, k, sreq), all[k][1])
                            \cap sreq.position_filters # {}}
        IN sres.hits = Pick(all, kept, 1)

\* The same for the hits in documents that have a segment.
C16_InSegmentedDocuments ==
    (spc = "returned" /\ sreq.position_filters # {}) =>
        LET all == HitsOf(WithoutPosition(sreq))
            kept == {k \in 1..Len(all) :
                        \/ _get_segment_boundaries(store, all[k][1]) = <<>>
                        \/ LabelsOf(MatchOfHit(all, k, sreq), all[k][1])
                               \cap sreq.position_filters # {}}
        IN sres.hits = Pick(all, kept, 1)

\* C17: in every result list the hits of one document are contiguous and
\* in strictly ascending char_offset, no (doc_id, char_offset) pair occurs
\* twice, and without a position filter every match of the verification
\* pattern in a document that has a hit is a hit.
C17_HitsOrdered ==
    spc = "returned" =>
        /\ \A i, j \in 1..Len(sres.hits) :
               (i < j /\ sres.hits[i][1] = sres.hits[j][1]) =>
                   /\ \A k \in i..j : sres.hits[k][1] = sres.hits[i][1]
                   /\ sres.hits[i][2] < sres.hits[j][2]
        /\ \A i, j \in 1..Len(sres.hits) :
               sres.hits[i] = sres.hits[j] => i = j
        /\ sreq.position_filters = {} =>
               \A k \in 1..Len(sres.hits) :
                   Cardinality({i \in 1..Len(sres.hits) :
                                   sres.hits[i][1] = sres.hits[k][1]})
                       = Len(finditer(PatternOf(sreq), FullTextOf(sres.hits[k][1])))

\* ---- _classify_hit_position
\* Where segment k of the layout starts in the full text (the segments are
\* joined by one space), and the segment a hit is in: the last that starts
\* at or before hit_start.
RECURSIVE SegStart(_, _)
SegStart(segs, k) ==
    IF k = 1 THEN 0 ELSE SegStart(segs, k - 1) + Len(segs[k - 1]) + 1

Containing(segs, hit_start) ==
    CHOOSE k \in 1..Len(segs) :
        /\ SegStart(segs, k) <= hit_start
        /\ \A j \in (k + 1)..Len(segs) : SegStart(segs, j) > hit_start

SpacesOf(seg) == {i \in 0..(Len(seg) - 1) : seg[i + 1] = " "}

\* The three rules on the classified span.
StartRule ==
    LET k == Containing(cin.segs, cin.hit_start)
        seg == cin.segs[k]
        off_in_seg == cin.hit_start - SegStart(cin.segs, k)
    IN ("start" \in cres) <=>
           \/ SpacesOf(seg) = {} /\ off_in_seg = 0
           \/ \E s0 \in SpacesOf(seg) :
                  /\ \A i \in SpacesOf(seg) : s0 <= i
                  /\ off_in_seg < s0

EndRule ==
    LET k == Containing(cin.segs, cin.hit_start)
        seg == cin.segs[k]
        off_in_seg == cin.hit_start - SegStart(cin.segs, k)
        match_len == cin.hit_end - cin.hit_start
    IN ("end" \in cres) <=>
           \/ SpacesOf(seg) = {} /\ off_in_seg + match_len >= Len(seg)
           \/ \E sN \in SpacesOf(seg) :
                  /\ \A i \in SpacesOf(seg) : i <= sN
                  /\ off_in_seg + match_len > sN

CrossRule ==
    LET k == Containing(cin.segs, cin.hit_start)
        off_in_seg == cin.hit_start - SegStart(cin.segs, k)
        match_len == cin.hit_end - cin.hit_start
    IN ("cross" \in cres) <=> off_in_seg + match_len > Len(cin.segs[k])

\* The span is one whole segment; the span is inside a word of its segment
\* that has a word before it and a word after it.
CoversSegment ==
    LET k == Containing(cin.segs, cin.hit_start)
    IN /\ cin.hit_start = SegStart(cin.segs, k)
       /\ cin.hit_end = cin.hit_start + Len(cin.segs[k])

InInteriorWord ==
    LET k == Containing(cin.segs, cin.hit_start)
        seg == cin.segs[k]
        lo == cin.hit_start - SegStart(cin.segs, k)
        hi == cin.hit_end - SegStart(cin.segs, k) - 1
    IN /\ lo <= hi
       /\ hi < Len(seg)
       /\ \A i \in lo..hi : seg[i + 1] # " "
       /\ \E b \in 0..(lo - 1), sp \in 0..(lo - 1) :
              b < sp /\ seg[b + 1] # " " /\ seg[sp + 1] = " "
       /\ \E sp \in (hi + 1)..(Len(seg) - 1), a \in (hi + 1)..(Len(seg) - 1) :
              sp < a /\ seg[sp + 1] = " " /\ seg[a + 1] # " "

C18_WitnessInterior ==
    /\ cpc = "classified"
    /\ InInteriorWord
    /\ cres = {}

\* ---- exact and partial mode
\* The offsets of the hits of document doc_id in the result.
HitOffsets(doc_id) ==
    {sres.hits[k][2] : k \in {i \in 1..Len(sres.hits) : sres.hits[i][1] = doc_id}}

\* Is offset p of text between a word character and a character that is
\* none (or an end of the text).
IsWordAt(text, i) == i >= 0 /\ i < Len(text) /\ text[i + 1] \in WordChars
OnWordBoundary(text, p) == IsWordAt(text, p - 1) # IsWordAt(text, p)

\* The offsets where the query text occurs in text, and those where it
\* occurs as whole words.
Occurrences(query, text) ==
    {p \in 0..(Len(text) - Len(query)) :
        \A i \in 1..Len(query) : text[p + i] = query[i]}

WholeWordOccurrences(query, text) ==
    {p \in Occurrences(query, text) :
        OnWordBoundary(text, p) /\ OnWordBoundary(text, p + Len(query))}

HasWordChar(query) == \E i \in 1..Len(query) : query[i] \in WordChars

\* C19: in exact mode with ignore_punct = false the hits are exactly the
\* whole-word occurrences of the literal query text: each hit begins and
\* ends on a word boundary, an occurrence inside a longer word is no hit,
\* and every whole-word occurrence in a document that passes the filters
\* is a hit.
C19_ExactWholeWords ==
    (/\ spc # "ready"
     /\ sreq.search_mode = "exact"
     /\ ~sreq.ignore_punct
     /\ sreq.position_filters = {}
     /\ HasWordChar(sreq.query)) =>
        /\ spc = "returned"
        /\ \A d \in store.documents :
               HitOffsets(d[1]) =
                   IF InsideFilters(d[1], sreq)
                   THEN WholeWordOccurrences(sreq.query, FullTextOf(d[1]))
                   ELSE {}

\* The words of a text (its runs of word characters) and whether one of
\* them starts, case folded, with one of the words of the query.
WordsOf(text) == Range(SplitRuns(text, 1, WordChars, <<>>))

HasWordStartingWithToken(text, query) ==
    \E word \in WordsOf(text), token \in WordsOf(query) :
        /\ Len(token) <= Len(word)
        /\ \A i \in 1..Len(token) : Lower(word[i]) = Lower(token[i])

\* The occurrences a scan from the left reports: the first one, then the
\* first one that begins at or after the end of the one before.
RECURSIVE LeftmostOccurrences(_, _, _)
LeftmostOccurrences(occ, from, n) ==
    IF \A p \in occ : p < from THEN {}
    ELSE LET p == CHOOSE x \in occ : x >= from /\ \A y \in occ : y >= from => x <= y
         IN {p} \cup LeftmostOccurrences(occ, p + n, n)

\* C20 as stated: in partial mode with at least one extractable token no
\* hit is an occurrence that begins inside a word (an interior or trailing
\* part of it), and a document is searched only if it contains a word
\* that starts with one of the query's tokens.
C20_AsStated ==
    (spc = "returned" /\ sreq.search_mode = "partial" /\ HasWordChar(sreq.query)) =>
        \A k \in 1..Len(sres.hits) :
            LET text == FullTextOf(sres.hits[k][1])
                p == sres.hits[k][2]
            IN /\ ~(IsWordAt(text, p - 1) /\ IsWordAt(text, p))
               /\ HasWordStartingWithToken(text, sreq.query)

\* C20: in partial mode with at least one extractable token a document is
\* searched only if it contains a word that starts, case folded, with one
\* of the query's tokens: every hit is in such a document, and a document
\* without one has no hit even where the query occurs inside its words.
\* In a document that has one and passes the filters, without ignore_punct
\* and position filter, the hits are the occurrences of the query text a
\* scan from the left reports, interior and trailing ones included.
C20_PrefixCandidatesOnly ==
    (spc = "returned" /\ sreq.search_mode = "partial" /\ HasWordChar(sreq.query)) =>
        /\ \A k \in 1..Len(sres.hits) :
               HasWordStartingWithToken(FullTextOf(sres.hits[k][1]), sreq.query)
        /\ (~sreq.ignore_punct /\ sreq.position_filters = {}) =>
               \A d \in store.documents :
                   HitOffsets(d[1]) =
                       IF /\ InsideFilters(d[1], sreq)
                          /\ HasWordStartingWithToken(FullTextOf(d[1]), sreq.query)
                       THEN LeftmostOccurrences(
                                Occurrences(sreq.query, FullTextOf(d[1])), 0,
                                Len(sreq.query))
                       ELSE {}

\* C20 witness: a partial search returned without a hit in a document that
\* passes the filters and has the query inside a word, no word of it
\* starting with a token.
C20_Witness ==
    /\ spc = "returned"
    /\ sreq.search_mode = "partial"
    /\ HasWordChar(sreq.query)
    /\ \E d \in store.documents :
           /\ InsideFilters(d[1], sreq)
           /\ Occurrences(sreq.query, FullTextOf(d[1])) # {}
           /\ ~HasWordStartingWithToken(FullTextOf(d[1]), sreq.query)
           /\ HitOffsets(d[1]) = {}

\* ---- ignore_punct
\* The whitespace-separated tokens of the query, and a text without its
\* punctuation.
QueryTokens(query) == SplitRuns(query, 1, AllChars \ SpaceChars, <<>>)
StripPunct(text) == SelectSeq(text, LAMBDA c : c \notin PunctChars)

\* Does text hold the token at offset p with nothing, or only
\* punctuation, between the characters of the token.
LooseOccurrences(token, text) ==
    {p \in 0..(Len(text) - 1) :
        \E e \in (p + 1)..Len(text) :
            /\ text[p + 1] = token[1]
            /\ text[e] = token[Len(token)]
            /\ e - p >= Len(token)
            /\ StripPunct(SubSeq(text, p + 1, e)) = token}

IsOneWord(query) ==
    query # <<>> /\ \A i \in 1..Len(query) : query[i] \in WordChars

SQLITE_MAX_PARAMS == 4
INT64_MAX == 7
DEFAULT_CONTEXT_SEGMENTS_LENGTH == 1

LOOKUP_BATCH_SIZE == SQLITE_MAX_PARAMS \div 2

\* The store the lookups run on: document 0 with the segments 0, 1, 2 and
\* document 1 with the segments 0, 1.
LookupStore ==
    BuiltStore(<<FirstRecord(<< <<"a">>, <<"a", "a">>, <<"-">> >>), SecondRecord>>)

\* The dict get_segments_by_ids makes of a segments row.
SegmentDict(row) ==
    [doc_id |-> row[1], segment_id |-> row[2], text |-> row[3],
     avg_logprob |-> row[4], char_offset |-> row[5], start_time |-> row[6],
     end_time |-> row[7]]

\* batch = lookups[i:i + BATCH_SIZE]
LookupBatch(lookups, i) ==
    SubSeq(lookups, i + 1, Min(i + LOOKUP_BATCH_SIZE, Len(lookups)))

\* Binding the parameters of a batch raises when a value is no INTEGER.
BindRaises(batch) ==
    \E k \in 1..Len(batch) : batch[k][1] > INT64_MAX \/ batch[k][2] > INT64_MAX

\* INSERT OR IGNORE INTO temp_segment_lookups VALUES (?, ?), ...: the
\* primary key (doc_id, segment_id) keeps one row of each pair.
InsertOrIgnore(rows, batch) == rows \cup Range(batch)

\* Mutant of JoinSegments: ORDER BY s.segment_id alone.
RECURSIVE JoinSegments_BySegmentId(_, _)
JoinSegments_BySegmentId(st, rows) ==
    LET joined == {r \in st.segments : <<r[1], r[2]>> \in rows}
    IN IF joined = {} THEN <<>>
       ELSE LET first == CHOOSE r \in joined : \A q \in joined :
                             \/ r[2] < q[2]
                             \/ (r[2] = q[2] /\ r[1] <= q[1])
            IN <<SegmentDict(first)>>
                   \o JoinSegments_BySegmentId(st, rows \ {<<first[1], first[2]>>})

\* SELECT ... FROM segments s INNER JOIN temp_segment_lookups t ON
\* s.doc_id = t.doc_id AND s.segment_id = t.segment_id ORDER BY s.doc_id,
\* s.segment_id, as the list of dicts.
RECURSIVE JoinSegments(_, _)
JoinSegments(st, rows) ==
    LET joined == {r \in st.segments : <<r[1], r[2]>> \in rows}
    IN IF joined = {} THEN <<>>
       ELSE LET first == CHOOSE r \in joined : \A q \in joined :
                             \/ r[1] < q[1]
                             \/ (r[1] = q[1] /\ r[2] <= q[2])
            IN <<SegmentDict(first)>>
                   \o JoinSegments(st, rows \ {<<first[1], first[2]>>})

\* ---- the call, statement by statement, on the connection of thread t
\* "if not lookups: return []", else CREATE TEMPORARY TABLE IF NOT EXISTS.
LookupCall(t, lookups) ==
    /\ gpc[t] = "idle"
    /\ glookups' = [glookups EXCEPT ![t] = lookups]
    /\ IF lookups = <<>>
       THEN /\ gpc' = [gpc EXCEPT ![t] = "returned"]
            /\ gresult' = [gresult EXCEPT ![t] = <<>>]
            /\ temp' = temp
       ELSE /\ gpc' = [gpc EXCEPT ![t] = "clear"]
            /\ temp' = [temp EXCEPT ![t].exists = TRUE]
            /\ gresult' = gresult
    /\ UNCHANGED <<gi, apc, areq, ares>>
    /\ UNCHANGED <<buildVars, offsetVars, searchVars, classifyVars>>

\* DELETE FROM temp_segment_lookups, before the inserts.
LookupClear(t) ==
    /\ gpc[t] = "clear"
    /\ temp' = [temp EXCEPT ![t].rows = {}]
    /\ gi' = [gi EXCEPT ![t] = 0]
    /\ gpc' = [gpc EXCEPT ![t] = "insert"]
    /\ UNCHANGED <<glookups, gresult, apc, areq, ares>>
    /\ UNCHANGED <<buildVars, offsetVars, searchVars, classifyVars>>

\* One round of "for i in range(0, len(lookups), BATCH_SIZE)": the INSERT
\* of the batch, which raises out of the call when a value does not bind.
LookupInsert(t) ==
    /\ gpc[t] = "insert"
    /\ LET batch == LookupBatch(glookups[t], gi[t])
       IN IF BindRaises(batch)
          THEN /\ gpc' = [gpc EXCEPT ![t] = "raised"]
               /\ UNCHANGED <<temp, gi>>
          ELSE /\ temp' = [temp EXCEPT ![t].rows = InsertOrIgnore(@, batch)]
               /\ gi' = [gi EXCEPT ![t] = @ + LOOKUP_BATCH_SIZE]
               /\ gpc' = [gpc EXCEPT ![t] =
                             IF gi[t] + LOOKUP_BATCH_SIZE >= Len(glookups[t])
                             THEN "select" ELSE "insert"]
    /\ UNCHANGED <<glookups, gresult, apc, areq, ares>>
    /\ UNCHANGED <<buildVars, offsetVars, searchVars, classifyVars>>

\* The join query and cursor.fetchall().
LookupSelect(t) ==
    /\ gpc[t] = "select"
    /\ gresult' = [gresult EXCEPT ![t] = JoinSegments(store, temp[t].rows)]
    /\ gpc' = [gpc EXCEPT ![t] = "cleanup"]
    /\ UNCHANGED <<glookups, gi, temp, apc, areq, ares>>
    /\ UNCHANGED <<buildVars, offsetVars, searchVars, classifyVars>>

\* "# Cleanup": DELETE FROM temp_segment_lookups, then the return.
LookupCleanup(t) ==
    /\ gpc[t] = "cleanup"
    /\ temp' = [temp EXCEPT ![t].rows = {}]
    /\ gpc' = [gpc EXCEPT ![t] = "returned"]
    /\ UNCHANGED <<glookups, gi, gresult, apc, areq, ares>>
    /\ UNCHANGED <<buildVars, offsetVars, searchVars, classifyVars>>

\* The caller has the result or the exception; the thread is free for its
\* next call, on the same connection.
LookupDone(t) ==
    /\ gpc[t] \in {"returned", "raised"}
    /\ gpc' = [gpc EXCEPT ![t] = "idle"]
    /\ glookups' = [glookups EXCEPT ![t] = <<>>]
    /\ gresult' = [gresult EXCEPT ![t] = <<>>]
    /\ gi' = [gi EXCEPT ![t] = 0]
    /\ UNCHANGED <<temp, apc, areq, ares>>
    /\ UNCHANGED <<buildVars, offsetVars, searchVars, classifyVars>>

\* The pairs asked for: segments that exist, in both documents, one that
\* does not, and one whose doc_id is beyond INT64_MAX.
LookupKeys == {<<1, 0>>, <<0, 2>>, <<0, 5>>, <<INT64_MAX + 1, 0>>}
LookupLists == SeqsUpTo(LookupKeys, MaxLookups)
OtherLookupLists == {<< <<0, 2>> >>, << <<1, 1>>, <<0, 0>>, <<1, 1>> >>}

InitLookup ==
    /\ mpc = "none"
    /\ index_path = "store"
    /\ nFiles = 0
    /\ badFiles = {}
    /\ segsPerFile = 0
    /\ store = LookupStore
    /\ tx = NoTx
    /\ wpc = "idle"
    /\ w = WriterLocals
    /\ write_queue = <<>>
    /\ finished_producers = FALSE
    /\ fut = <<>>
    /\ futIdx = 0
    /\ last = [by |-> "none", db |-> FALSE]
    /\ nCommits = 0
    /\ OffsetsIdle
    /\ SearchIdle
    /\ ClassifyIdle
    /\ LookupIdle

NextLookup ==
    \/ \E lookups \in LookupLists : LookupCall("t1", lookups)
    \/ \E lookups \in OtherLookupLists : LookupCall("t2", lookups)
    \/ \E t \in LookupThreads :
           \/ LookupClear(t)
           \/ LookupInsert(t)
           \/ LookupSelect(t)
           \/ LookupCleanup(t)
           \/ LookupDone(t)

SpecLookup == InitLookup /\ [][NextLookup]_vars


\* ---- the callers
\* get_segments_by_ids as one call on a connection: what it returns, or
\* that it raised.
get_segments_by_ids(st, lookups) ==
    IF lookups = <<>> THEN [raised |-> FALSE, result |-> <<>>]
    ELSE IF BindRaises(lookups) THEN [raised |-> TRUE, result |-> <<>>]
    ELSE [raised |-> FALSE, result |-> JoinSegments(st, InsertOrIgnore({}, lookups))]

\* routes/search.py get_segments_by_idx: seg_dict keyed by (doc_id,
\* segment_id), then one entry for each lookup in input order; None is {}.
ByIdxResults(raw, batch_lookups) ==
    [k \in 1..Len(batch_lookups) |->
        {[episode_idx |-> batch_lookups[k][1],
          segment_index |-> seg.segment_id,
          start_sec |-> seg.start_time,
          end_sec |-> seg.end_time,
          text |-> seg.text] :
            seg \in {x \in Range(raw) :
                         <<x.doc_id, x.segment_id>> = batch_lookups[k]}}]

\* routes/export.py: the context indices of a hit in segment seg_idx, and
\* segments_to_fetch for the hits in order.
ContextIndices(seg_idx) ==
    LET lo == IF seg_idx - DEFAULT_CONTEXT_SEGMENTS_LENGTH >= 0
              THEN seg_idx - DEFAULT_CONTEXT_SEGMENTS_LENGTH ELSE 0
    IN [k \in 1..(seg_idx + DEFAULT_CONTEXT_SEGMENTS_LENGTH - lo + 1) |-> lo + k - 1]

RECURSIVE SegmentsToFetch(_)
SegmentsToFetch(targets) ==
    IF targets = <<>> THEN <<>>
    ELSE [k \in 1..Len(ContextIndices(targets[1][2])) |->
             <<targets[1][1], ContextIndices(targets[1][2])[k]>>]
         \o SegmentsToFetch(Tail(targets))

\* "for (ep_idx, seg_idx), seg_data in zip(segments_to_fetch,
\* fetched_segments): segment_map[key] = seg_data": the pairs <<key, seg>>
\* of the dict, a later assignment to a key replacing the earlier one.
SegmentMap(segments_to_fetch, fetched_segments) ==
    LET n == Min(Len(segments_to_fetch), Len(fetched_segments))
    IN {<<segments_to_fetch[k], fetched_segments[k]>> :
           k \in {i \in 1..n : \A j \in (i + 1)..n :
                                   segments_to_fetch[j] # segments_to_fetch[i]}}

\* POST /segment/by_idx with the lookups of the body.
ByIdx(batch_lookups) ==
    /\ apc = "ready"
    /\ areq' = batch_lookups
    /\ LET got == get_segments_by_ids(store, batch_lookups)
       IN IF got.raised
          THEN apc' = "raised" /\ ares' = <<>>
          ELSE apc' = "by_idx" /\ ares' = ByIdxResults(got.result, batch_lookups)
    /\ UNCHANGED <<gpc, glookups, gi, temp, gresult>>
    /\ UNCHANGED <<buildVars, offsetVars, searchVars, classifyVars>>

\* export_results_csv from the hits on: targets are the (episode_idx,
\* seg_idx) search_service.segment gives for the hits, in hit order.
ExportContext(targets) ==
    /\ apc = "ready"
    /\ areq' = targets
    /\ LET segments_to_fetch == SegmentsToFetch(targets)
           got == get_segments_by_ids(store, segments_to_fetch)
       IN IF got.raised
          THEN apc' = "raised" /\ ares' = <<>>
          ELSE apc' = "export" /\ ares' = SegmentMap(segments_to_fetch, got.result)
    /\ UNCHANGED <<gpc, glookups, gi, temp, gresult>>
    /\ UNCHANGED <<buildVars, offsetVars, searchVars, classifyVars>>

\* The hits of a search are in document order and, in a document, in
\* offset order: so are the segments they lie in.
StoreKeys == {<<r[1], r[2]>> : r \in LookupStore.segments}
HitTargets ==
    {t \in SeqsUpTo(StoreKeys, MaxHits) :
        \A i \in 1..(Len(t) - 1) :
            \/ t[i][1] < t[i + 1][1]
            \/ (t[i][1] = t[i + 1][1] /\ t[i][2] <= t[i + 1][2])}

InitCallers ==
    /\ mpc = "none"
    /\ index_path = "store"
    /\ nFiles = 0
    /\ badFiles = {}
    /\ segsPerFile = 0
    /\ store = LookupStore
    /\ tx = NoTx
    /\ wpc = "idle"
    /\ w = WriterLocals
    /\ write_queue = <<>>
    /\ finished_producers = FALSE
    /\ fut = <<>>
    /\ futIdx = 0
    /\ last = [by |-> "none", db |-> FALSE]
    /\ nCommits = 0
    /\ OffsetsIdle
    /\ SearchIdle
    /\ ClassifyIdle
    /\ gpc = [t \in LookupThreads |-> "idle"]
    /\ glookups = [t \in LookupThreads |-> <<>>]
    /\ gi = [t \in LookupThreads |-> 0]
    /\ temp = [t \in LookupThreads |-> NoTemp]
    /\ gresult = [t \in LookupThreads |-> <<>>]
    /\ apc = "ready"
    /\ areq = <<>>
    /\ ares = <<>>

NextCallers ==
    \/ \E batch_lookups \in LookupLists : ByIdx(batch_lookups)
    \/ \E targets \in HitTargets : ExportContext(targets)

SpecCallers == InitCallers /\ [][NextCallers]_vars

\* ---- get_segments_by_ids
\* The segments of the store that a list of pairs names.
NamedSegments(pairs) ==
    {SegmentDict(r) : r \in {x \in store.segments : <<x[1], x[2]>> \in Range(pairs)}}

\* (doc_id, segment_id) of a before that of b.
KeyBefore(a, b) ==
    \/ a.doc_id < b.doc_id
    \/ (a.doc_id = b.doc_id /\ a.segment_id < b.segment_id)

\* C22: get_segments_by_ids(pairs) returns exactly the segments whose
\* (doc_id, segment_id) is in pairs and in the store, each once also when
\* the pair is repeated, pairs without a segment left out, ordered by
\* (doc_id, segment_id) whatever the order of the input; an empty input
\* returns an empty list.
C22_ByIdsExact ==
    \A t \in LookupThreads :
        gpc[t] = "returned" =>
            /\ Range(gresult[t]) = NamedSegments(glookups[t])
            /\ \A i, j \in 1..Len(gresult[t]) :
                   i < j => KeyBefore(gresult[t][i], gresult[t][j])
            /\ glookups[t] = <<>> => gresult[t] = <<>>

\* C22 witness: a call whose pairs repeat one pair and name the later
\* document first returned two segments.
C22_Witness ==
    /\ gpc["t1"] = "returned"
    /\ Len(gresult["t1"]) = 2
    /\ glookups["t1"][1] = <<1, 0>>
    /\ \E i, j \in 1..Len(glookups["t1"]) : i < j /\ glookups["t1"][i] = glookups["t1"][j]

\* A call with a pair that has no segment returned the one segment the
\* other pairs name.
C22_WitnessMissing ==
    /\ gpc["t1"] = "returned"
    /\ <<0, 5>> \in Range(glookups["t1"])
    /\ Len(gresult["t1"]) = 1

\* C23: the temporary lookup table is empty after every call, one that
\* raised part-way included, and private to the calling connection, so
\* what a call returns is decided by its pairs and the store alone.
C23_TempEmptyAfterCall ==
    \A t \in LookupThreads :
        /\ gpc[t] \in {"returned", "raised"} => temp[t].rows = {}
        /\ gpc[t] = "returned" =>
               \A k \in 1..Len(gresult[t]) :
                   <<gresult[t][k].doc_id, gresult[t][k].segment_id>>
                       \in Range(glookups[t])

\* ---- the callers of get_segments_by_ids
\* The segment of the store with the key, as a set: empty when there is
\* none.
OwnSegment(key) ==
    {SegmentDict(r) : r \in {x \in store.segments : <<x[1], x[2]>> = key}}

\* The by_idx part of C24: the output has the length and order of the
\* input, each entry the pair's own segment or null.
C24_ByIdxAligned ==
    apc = "by_idx" =>
        /\ Len(ares) = Len(areq)
        /\ \A k \in 1..Len(areq) :
               /\ {<<e.episode_idx, e.segment_index, e.text>> : e \in ares[k]}
                      = {<<s.doc_id, s.segment_id, s.text>> : s \in OwnSegment(areq[k])}
               /\ Cardinality(ares[k]) <= 1

\* C24: every caller that pairs the result of get_segments_by_ids with
\* the pairs it asked for does so by (doc_id, segment_id): each pair gets
\* its own segment, or nothing when there is none, also with repeated
\* pairs and pairs without a segment; in the by_idx endpoint and in the
\* context fetch of the CSV export.
C24_CallersAlign ==
    /\ C24_ByIdxAligned
    /\ apc = "export" =>
           \A key \in Range(SegmentsToFetch(areq)) :
               {e[2] : e \in {x \in ares : x[1] = key}} = OwnSegment(key)

\* ---- the two offset lookups
\* The segment the classifier's lookup selects for hit offset h in
\* document doc_id, as <<char_offset, length>>: bisect_right(seg_offsets,
\* h) - 1, not below 0, over the boundaries of the document.
FastPathSegment(doc_id, h) ==
    LET seg_boundaries == _get_segment_boundaries(store, doc_id)
        seg_offsets == [k \in 1..Len(seg_boundaries) |-> seg_boundaries[k][1]]
        idx0 == bisect_right(seg_offsets, h) - 1
        idx == IF idx0 < 0 THEN 0 ELSE idx0
    IN seg_boundaries[idx + 1]

\* C25: for every document and every hit offset h >= 0 the in-memory
\* lookup of the classifier selects the segment get_segment_at_offset(
\* doc_id, h) returns; a document without segments has none for either.
C25_SameSegment ==
    (lpc = "resolved" /\ qoff >= 0) =>
        IF _get_segment_boundaries(store, qdoc) = <<>>
        THEN qres = NotFound
        ELSE /\ qres # NotFound
             /\ FastPathSegment(qdoc, qoff) = <<qres.char_offset, Len(qres.text)>>

\* C25 witness: an offset that is the start of a segment after the first
\* was resolved to that segment.
C25_Witness ==
    /\ lpc = "resolved"
    /\ qoff > 0
    /\ qres # NotFound
    /\ qres.char_offset = qoff
    /\ qres.segment_id >= 1

\* ---- the regex prefix filter
\* The starts of the matches of the compiled pattern in text.
MatchStarts(alts, text) ==
    LET ms == finditer(alts, text)
    IN {ms[k][1] : k \in 1..Len(ms)}

\* C26: in regex mode the FTS prefix filter never changes the answer: for
\* a pattern that compiles, the result has every match of the pattern in
\* every document that passes the date and source filters (here without
\* a position filter, which drops matches by design).
C26_RegexFindsEveryMatch ==
    (/\ spc = "returned"
     /\ sreq.search_mode = "regex"
     /\ sreq.position_filters = {}
     /\ ~regex_compile(sreq.query).error) =>
        \A d \in store.documents :
            InsideFilters(d[1], sreq) =>
                MatchStarts(regex_compile(sreq.query).alts, FullTextOf(d[1]))
                    \subseteq HitOffsets(d[1])

\* ---- the end of a build
\* The three statements of the writer's final flush, with the rows they
\* are called on.
FinalFlushCalls ==
    <<[sql |-> INSERT_DOCUMENTS, rows |-> w.batch_docs],
      [sql |-> INSERT_MAPPING, rows |-> MappingAppended(WriterView)],
      [sql |-> INSERT_SEGMENTS, rows |-> w.batch_segments]>>

\* The writer left its loop by the break, not by an exception.
WriterBroke == wpc \in {"final", "done"}

\* The writer stops only when nothing is queued and nothing is to be put.
C27_NoEarlyBreak == WriterBroke => (write_queue = <<>> /\ futIdx = nFiles)

\* C27: when a build finishes, every file record whose parsed tuple was
\* put on the queue has its document, full-text row, mapping entry and
\* all its segments committed in the store; the writer does not stop
\* while an item is queued or still to be put.
C27_QueuedIsCommitted ==
    /\ C27_NoEarlyBreak
    /\ mpc = "returned" => \A i \in 0..(futIdx - 1) : Committed(i)

\* The main thread and the writer thread have ended.
MainEnded == mpc \in {"exit", "loaded", "raised", "returned"}
WriterGone == wpc \in {"idle", "done", "dead"}

\* C28: every build run terminates and leaves no thread running or
\* blocked: in a state where no thread can take a step any more (the
\* main thread waits in put or join for ever, the writer polls the empty
\* queue for ever) the main thread and the writer have both ended.
C28_NoThreadLeft == (~ENABLED Next) => (MainEnded /\ WriterGone)

\* C29: batch_execute(sql, rows) inserts every row of rows for each INSERT
\* statement the writer passes to it (documents, mapping, segments) and
\* for any number of rows: in every statement it executes the number of
\* placeholders equals the number of bound values.  Stated of the calls
\* of the final flush on the batches pending then.
C29_PlaceholdersMatchValues ==
    wpc = "final" =>
        \A c \in 1..Len(FinalFlushCalls) :
            LET call == FinalFlushCalls[c]
                r == batch_execute(call.sql, call.rows)
            IN r.ok /\ r.n = Len(call.rows)

\* ---- 'cross' and 'end'
\* The spans <<hit_start, hit_end>> of a text.
SpansOf(text) ==
    {span \in (0..Len(text)) \X (0..Len(text)) : span[1] <= span[2]}

WithPosition(req, labels) == [req EXCEPT !.position_filters = labels]

\* C30: every label set the classifier returns that contains 'cross' also
\* contains 'end', for every span of every document that has a segment;
\* hence the search filtered by {end} returns every hit the search
\* filtered by {cross} returns.
C30_CrossImpliesEnd ==
    /\ \A d \in store.documents :
           _get_segment_boundaries(store, d[1]) # <<>> =>
               \A span \in SpansOf(FullTextOf(d[1])) :
                   "cross" \in LabelsOf(span, d[1]) => "end" \in LabelsOf(span, d[1])
    /\ (spc = "returned" /\ sreq.position_filters = {"cross"}) =>
           Range(sres.hits) \subseteq Range(HitsOf(WithPosition(sreq, {"end"})))

\* C30 witness: a search filtered by {cross} returned a hit whose match
\* runs over the end of its segment.
C30_Witness ==
    /\ spc = "returned"
    /\ sreq.position_filters = {"cross"}
    /\ \E k \in 1..Len(sres.hits) :
           /\ _get_segment_boundaries(store, sres.hits[k][1]) # <<>>
           /\ "cross" \in LabelsOf(MatchOfHit(HitsOf(WithoutPosition(sreq)),
                   CHOOSE j \in 1..HitCount(WithoutPosition(sreq)) :
                       HitsOf(WithoutPosition(sreq))[j] = sres.hits[k], sreq),
                   sres.hits[k][1])
====
